---------------------------- MODULE Spec2Model ----------------------------
(***************************************************************************)
(* Tool-call dispatch and webhook invocation of the realtime chat client.  *)
(*                                                                         *)
(* The module models                                                       *)
(*   - JavaScript values, JSON.stringify and JSON.parse (token level),     *)
(*   - the tool registry and its enablement gate (client/lib/tools.js as   *)
(*     listed in docs/tools-guide.md),                                     *)
(*   - the App component's session state and event log, and                *)
(*   - the ToolPanel component's session effect and function-call effect.  *)
(***************************************************************************)
EXTENDS Integers, Sequences, FiniteSets, TLC

(***************************************************************************)
(* JavaScript values.  Every value is a record of the same shape:          *)
(*   k     the kind: undef, null, bool, num, str, arr, obj, text           *)
(*   s     the text of a scalar (an opaque atom)                           *)
(*         for a string, items holds the strings interpolated into s       *)
(*   items the members of an object, in insertion order, as <<key, value>> *)
(*         pairs; the elements of an array as <<"", value>> pairs          *)
(*   toks  for kind text: a string that is held as a sequence of JSON      *)
(*         tokens, so that it can be parsed                                *)
(***************************************************************************)
V(k, s, items, toks) == [k |-> k, s |-> s, items |-> items, toks |-> toks]

Undef == V("undef", "", <<>>, <<>>)

Null == V("null", "", <<>>, <<>>)

Str(s) == V("str", s, <<>>, <<>>)

\* A template string: the text s with the strings parts interpolated
\* into it, as in `Endpoint "${key}" not found`.
Fmt(s, parts) == V("str", s, [i \in 1..Len(parts) |-> <<"", Str(parts[i])>>], <<>>)

Num(s) == V("num", s, <<>>, <<>>)

Bool(s) == V("bool", s, <<>>, <<>>)

Obj(fields) == V("obj", "", fields, <<>>)

Arr(vals) == V("arr", "", [i \in 1..Len(vals) |-> <<"", vals[i]>>], <<>>)

Text(toks) == V("text", "", <<>>, toks)

\* Tokens of a JSON text: punctuation, string literal, number, bare word;
\* the interpolated parts of a string literal follow it as "+" tokens.
P(c) == <<"p", c>>

S(s) == <<"s", s>>

N(s) == <<"n", s>>

W(s) == <<"w", s>>

\* obj[key]: the value of a member, undefined when the key is absent
\* (the last member wins, as in a JavaScript object built by the parser).
RECURSIVE Get(_, _)
Get(obj, key) ==
  IF obj.k # "obj" \/ obj.items = <<>> THEN Undef
  ELSE LET n == Len(obj.items)
       IN  IF obj.items[n][1] = key THEN obj.items[n][2]
           ELSE Get(Obj(SubSeq(obj.items, 1, n - 1)), key)

\* JavaScript truthiness.
Truthy(v) ==
  CASE v.k \in {"undef", "null"} -> FALSE
    [] v.k = "bool" -> v.s = "true"
    [] v.k = "num"  -> v.s # "0"
    [] v.k = "str"  -> v.s # "" \/ v.items # <<>>
    [] v.k = "text" -> v.toks # <<>>
    [] OTHER -> TRUE

(***************************************************************************)
(* JSON.stringify.  Ser is the token sequence of a defined value; members  *)
(* whose value is undefined are left out of an object and become null in   *)
(* an array.  JSON.stringify(undefined) is undefined, not a string.        *)
(***************************************************************************)
RECURSIVE Ser(_), SerMembers(_, _), SerElements(_)
Ser(v) ==
  CASE v.k = "null" -> <<W("null")>>
    [] v.k = "undef" -> <<W("null")>>
    [] v.k = "bool" -> <<W(v.s)>>
    [] v.k = "num"  -> <<N(v.s)>>
    [] v.k = "str"  -> <<S(v.s)>> \o [i \in 1..Len(v.items) |-> <<"+", v.items[i][2].s>>]
    [] v.k = "text" -> <<S("<json text>")>>
    [] v.k = "arr"  -> <<P("[")>> \o SerElements(v.items) \o <<P("]")>>
    [] v.k = "obj"  -> <<P("{")>> \o SerMembers(v.items, TRUE) \o <<P("}")>>

SerElements(items) ==
  IF items = <<>> THEN <<>>
  ELSE Ser(items[1][2])
       \o (IF Len(items) > 1 THEN <<P(",")>> ELSE <<>>)
       \o SerElements(Tail(items))

SerMembers(items, first) ==
  IF items = <<>> THEN <<>>
  ELSE IF items[1][2].k = "undef" THEN SerMembers(Tail(items), first)
  ELSE (IF first THEN <<>> ELSE <<P(",")>>)
       \o <<S(items[1][1]), P(":")>> \o Ser(items[1][2])
       \o SerMembers(Tail(items), FALSE)

JSONstringify(v) == IF v.k = "undef" THEN Undef ELSE Text(Ser(v))

(***************************************************************************)
(* JSON.parse: a recursive-descent parser over the tokens.  A result is    *)
(* [ok, val, rest]; ok = FALSE stands for the SyntaxError it throws.       *)
(***************************************************************************)
ParseFail == [ok |-> FALSE, val |-> Undef, rest |-> <<>>]

ParseOk(v, rest) == [ok |-> TRUE, val |-> v, rest |-> rest]

\* obj[key] = value on an object under construction: an existing key keeps
\* its position and takes the new value.
PutMember(fields, key, val) ==
  IF \E i \in 1..Len(fields) : fields[i][1] = key
  THEN [i \in 1..Len(fields) |->
          IF fields[i][1] = key THEN <<key, val>> ELSE fields[i]]
  ELSE Append(fields, <<key, val>>)

\* The number of "+" tokens at the head of t.
RECURSIVE CountParts(_)
CountParts(t) ==
  IF t = <<>> \/ t[1][1] # "+" THEN 0 ELSE 1 + CountParts(Tail(t))

RECURSIVE ParseValue(_), ParseMembers(_, _), ParseElements(_, _)
ParseValue(t) ==
  IF t = <<>> THEN ParseFail
  ELSE LET h == t[1] r == Tail(t)
       IN CASE h[1] = "s" ->
                 LET n == CountParts(r)
                 IN  ParseOk(Fmt(h[2], [i \in 1..n |-> r[i][2]]),
                             SubSeq(r, n + 1, Len(r)))
            [] h[1] = "n" -> ParseOk(Num(h[2]), r)
            [] h[1] = "w" ->
                 IF h[2] = "null" THEN ParseOk(Null, r)
                 ELSE IF h[2] \in {"true", "false"} THEN ParseOk(Bool(h[2]), r)
                 ELSE ParseFail
            [] h = P("{") ->
                 IF r # <<>> /\ r[1] = P("}") THEN ParseOk(Obj(<<>>), Tail(r))
                 ELSE ParseMembers(r, <<>>)
            [] h = P("[") ->
                 IF r # <<>> /\ r[1] = P("]") THEN ParseOk(Arr(<<>>), Tail(r))
                 ELSE ParseElements(r, <<>>)
            [] OTHER -> ParseFail

ParseMembers(t, acc) ==
  IF Len(t) < 3 \/ t[1][1] # "s" \/ t[2] # P(":") THEN ParseFail
  ELSE LET pv == ParseValue(SubSeq(t, 3, Len(t)))
       IN  IF ~pv.ok \/ pv.rest = <<>> THEN ParseFail
           ELSE LET acc2 == PutMember(acc, t[1][2], pv.val)
                IN  IF pv.rest[1] = P("}") THEN ParseOk(Obj(acc2), Tail(pv.rest))
                    ELSE IF pv.rest[1] = P(",") THEN ParseMembers(Tail(pv.rest), acc2)
                    ELSE ParseFail

ParseElements(t, acc) ==
  LET pv == ParseValue(t)
  IN  IF ~pv.ok \/ pv.rest = <<>> THEN ParseFail
      ELSE LET acc2 == Append(acc, pv.val)
           IN  IF pv.rest[1] = P("]") THEN ParseOk(Arr(acc2), Tail(pv.rest))
               ELSE IF pv.rest[1] = P(",") THEN ParseElements(Tail(pv.rest), acc2)
               ELSE ParseFail

\* JSON.parse(x).  A text is parsed; any other value is first converted to
\* a string: null, booleans and numbers read back as themselves, undefined,
\* objects, arrays and plain strings are not JSON.
JSONparse(x) ==
  CASE x.k = "text" ->
         LET pv == ParseValue(x.toks)
         IN  IF pv.ok /\ pv.rest = <<>> THEN pv ELSE ParseFail
    [] x.k \in {"null", "bool", "num"} -> ParseOk(x, <<>>)
    [] OTHER -> ParseFail


(***************************************************************************)
(* Strings.  Text is held as opaque atoms, so the string functions the     *)
(* tools use are tables over the atoms that occur in the model.            *)
(***************************************************************************)
\* s.replace(/_/g, '-')
ReplaceUnderscores(s) ==
  CASE s = "n8n_brave_search" -> "n8n-brave-search"
    [] s = "N8N_Brave_Search" -> "N8N-Brave-Search"
    [] s = "web_search" -> "web-search"
    [] s = "Weather_API" -> "Weather-API"
    [] s = "weather_api" -> "weather-api"
    [] s = "Web_Search" -> "Web-Search"
    [] OTHER -> s

\* s.toLowerCase()
ToLowerCase(s) ==
  CASE s = "N8N_Brave_Search" -> "n8n_brave_search"
    [] s = "N8N-Brave-Search" -> "n8n-brave-search"
    [] s = "Weather-API" -> "weather-api"
    [] s = "Weather_API" -> "weather_api"
    [] s = "Web-Search" -> "web-search"
    [] s = "Web_Search" -> "web_search"
    [] s = "WEATHER-API" -> "weather-api"
    [] s = "N8N-BRAVE-SEARCH" -> "n8n-brave-search"
    [] s = "Content-Type" -> "content-type"
    [] s = "X-API-Key" -> "x-api-key"
    [] s = "Authorization" -> "authorization"
    [] s = "User-Agent" -> "user-agent"
    [] s = "Accept" -> "accept"
    [] OTHER -> s

\* s.toLowerCase().includes('search')
IncludesSearch(s) ==
  ToLowerCase(s) \in {"n8n-brave-search", "n8n_brave_search", "web search hook",
                      "http://localhost:8080/search", "web-search", "web_search"}

\* url.startsWith('http')
StartsWithHttp(url) ==
  url \in {"https://n8n.example/hook", "https://legacy.example/x",
           "https://api.example.com/w", "https://find.example/q",
           "http://searx.local/search", "http://localhost:8080/search"}

\* url.includes(host), for the hosts the page may be served from
IncludesHost(url, host) ==
  <<url, host>> \in { <<"https://api.example.com/w", "example.com">> }

\* s.trim() === ''
IsBlank(s) == s \in {"", "   "}

(***************************************************************************)
(* HTTP responses seen by fetch.  kind "neterr" is a rejected fetch;       *)
(* otherwise ok is response.ok, status the status code, ctype the          *)
(* Content-Type header and body the response body (a text when it is       *)
(* JSON, a plain string otherwise).                                        *)
(***************************************************************************)
Response(kind, ok, status, ctype, body) ==
  [kind |-> kind, ok |-> ok, status |-> status, ctype |-> ctype, body |-> body]

NetworkFailure == Response("neterr", FALSE, "", "", Undef)

\* A settled promise of a tool handler: resolved with a ToolResult
\* {status, content}, or rejected with an error message.
Resolved(status, content) ==
  [rejected |-> FALSE, status |-> status, content |-> content, error |-> ""]

Rejected(msg) ==
  [rejected |-> TRUE, status |-> "", content |-> Undef, error |-> msg]

Thrown(msg) == [thrown |-> TRUE, msg |-> msg, val |-> Undef]

Returned(val) == [thrown |-> FALSE, msg |-> "", val |-> val]

\* data.results || [] of the parsed body of the search response
SearchResults(data) ==
  IF ~data.ok THEN Thrown("Unexpected token")
  ELSE IF data.val.k \in {"null", "undef"} THEN Thrown("Cannot read properties of null")
  ELSE IF Truthy(Get(data.val, "results")) THEN Returned(Get(data.val, "results"))
  ELSE Returned(Arr(<<>>))

\* fetchSearchResults(query): the results, or the message of the error
\* it re-throws.
fetchSearchResults(resp) ==
  IF resp.kind = "neterr" THEN Thrown("Failed to fetch")
  ELSE IF ~resp.ok THEN Thrown("Search API request failed")
  ELSE SearchResults(JSONparse(resp.body))

\* The data of a response that declares JSON: response.json() fails on a
\* body that is not JSON, and response.text() then finds the body already
\* read and throws.
WebhookJson(data) ==
  IF data.ok THEN Returned(data.val) ELSE Thrown("body stream already read")

\* callWebhook without the check of response.ok
callWebhookAnyStatus(resp) ==
  IF resp.kind = "neterr" THEN Thrown("Failed to fetch")
  ELSE IF resp.ctype = "application/json" THEN WebhookJson(JSONparse(resp.body))
  ELSE Returned(Obj(<< <<"text", IF Truthy(resp.body) THEN resp.body
                                  ELSE Str("Empty response")>>,
                       <<"_non_json_response", Bool("true")>> >>))

\* callWebhook(method, endpointConfig, payload): the data it returns, or
\* the message of the error it re-throws.
callWebhook(resp) ==
  IF resp.kind = "neterr" THEN Thrown("Failed to fetch")
  ELSE IF ~resp.ok THEN Thrown("Webhook request failed with status: " \o resp.status)
  ELSE IF resp.ctype = "application/json" THEN WebhookJson(JSONparse(resp.body))
  ELSE Returned(Obj(<< <<"text", IF Truthy(resp.body) THEN resp.body
                                  ELSE Str("Empty response")>>,
                       <<"_non_json_response", Bool("true")>> >>))


(***************************************************************************)
(* The tool registry (client/lib/tools.js).                                *)
(***************************************************************************)
\* Object.keys(tools), in insertion order.
ToolNames == <<"display_color_palette", "web_search", "webhook_call">>

requiredEnvVars(tool) ==
  CASE tool = "web_search" -> <<"SEARXNG_URL">>
    [] OTHER -> <<>>

\* tools[toolName] is defined.
IsRegistered(toolName) == \E i \in 1..Len(ToolNames) : ToolNames[i] = toolName

\* typeof x === 'object' for a truthy x.
IsObject(x) == x.k \in {"obj", "arr"}

\* Object.keys(x) as an array of strings.
ObjectKeys(x) ==
  IF x.k = "obj" THEN Arr([i \in 1..Len(x.items) |-> Str(x.items[i][1])])
  ELSE Arr(<<>>)

\* The value read back from localStorage: JSON.parse(item || '{}').
ParseStored(item) ==
  IF Truthy(item) THEN JSONparse(item) ELSE ParseOk(Obj(<<>>), <<>>)

\* isSearxngEndpoint(url, key, description)
isSearxngEndpoint(url, key, description) ==
  \/ url \in {"http://searx.local/search", "http://localhost:8080/search"}
  \/ ToLowerCase(key) \in {"searx", "my-searx", "searx-any"}
  \/ (description # "" /\ ToLowerCase(description) \in {"searx instance"})

\* availableKeys.find(...) of the case-insensitive scan: the first stored
\* key that matches, undefined when there is none.
RECURSIVE FindKey(_, _)
FindKey(items, normalizedKey) ==
  IF items = <<>> THEN Undef
  ELSE IF \/ ToLowerCase(items[1][1]) = normalizedKey
          \/ ReplaceUnderscores(ToLowerCase(items[1][1])) = normalizedKey
       THEN Str(items[1][1])
       ELSE FindKey(Tail(items), normalizedKey)

\* A not-found message that leaves the stored keys out
NotFoundMessageBare(key, savedEndpoints) ==
  Fmt("Endpoint \"%\" not found. Available endpoints: %", <<key, "None">>)

\* `Endpoint "${args.endpoint_key}" not found. Available endpoints:
\* ${availableEndpoints || 'None'}`
NotFoundMessage(key, savedEndpoints) ==
  Fmt("Endpoint \"%\" not found. Available endpoints: %",
      <<key>> \o (IF savedEndpoints.k = "obj" /\ savedEndpoints.items # <<>>
                  THEN [i \in 1..Len(savedEndpoints.items) |-> savedEndpoints.items[i][1]]
                  ELSE <<"None">>))

\* `POST request to "${matchingKey}" requires a payload. ${description || ''}`
PayloadRequiredMessage(key, descText) ==
  Fmt("POST request to \"%\" requires a payload. %", <<key, descText>>)

Plan(kind, result, msg, call) ==
  [kind |-> kind, result |-> result, msg |-> msg, call |-> call]

NoCall == [method |-> "", config |-> Undef, payload |-> Undef, key |-> "",
           description |-> Null, search |-> FALSE]

\* The error result of the catch block of webhook_call.execute; again is
\* the stored endpoints as parsed in the catch block.
WebhookCaught(msg, again) ==
  IF ~again.ok THEN Rejected("Unexpected token")
  ELSE IF again.val.k = "null" THEN Rejected("Cannot convert undefined or null to object")
  ELSE Resolved("error",
         JSONstringify(Obj(<< <<"error", Str(msg)>>,
                              <<"available_endpoints", ObjectKeys(again.val)>> >>)))

WebhookCatch(msg, item) == WebhookCaught(msg, ParseStored(item))

Throw(msg) == Plan("throw", Undef, msg, NoCall)

\* The last steps before callWebhook without the switch to POST
WebhookCallAsAsked(method, endpointConfig, payload, matchingKey, description, isSearchEndpoint, isSearxEngine) ==
  Plan("call", Undef, "",
       [method |-> method.s,
        config |-> endpointConfig, payload |-> payload,
        key |-> matchingKey.s, description |-> description,
        search |-> isSearchEndpoint])

\* The last steps before callWebhook: SearXNG gets POST instead of GET.
WebhookCall(method, endpointConfig, payload, matchingKey, description, isSearchEndpoint, isSearxEngine) ==
  Plan("call", Undef, "",
       [method |-> IF /\ isSearxEngine /\ method = Str("GET")
                      /\ Truthy(payload) /\ Truthy(Get(payload, "query"))
                   THEN "POST" ELSE method.s,
        config |-> endpointConfig, payload |-> payload,
        key |-> matchingKey.s, description |-> description,
        search |-> isSearchEndpoint])

\* A payload step that makes no payload of args.query
WebhookPayloadGivenOnly(args, matchingKey, endpointConfig, description, requiredMethod, actualMethod, isSearchEndpoint, isSearxEngine) ==
  IF actualMethod = Str("POST") /\ ~Truthy(Get(args, "payload")) /\ requiredMethod = Str("POST")
  THEN Plan("return",
         Resolved("error",
           JSONstringify(Obj(
             << <<"error",
                  PayloadRequiredMessage(matchingKey.s,
                    IF Truthy(description) THEN description.s ELSE "")>> >>))),
         "", [NoCall EXCEPT !.config = endpointConfig, !.key = matchingKey.s,
                            !.description = description])
  ELSE WebhookCall(actualMethod, endpointConfig, Get(args, "payload"),
                   matchingKey, description, isSearchEndpoint, isSearxEngine)

\* A payload step that never asks for a payload
WebhookPayloadOptional(args, matchingKey, endpointConfig, description, requiredMethod, actualMethod, isSearchEndpoint, isSearxEngine) ==
  WebhookCall(actualMethod, endpointConfig, Get(args, "payload"),
              matchingKey, description, isSearchEndpoint, isSearxEngine)

\* The payload of a POST: taken from args.query for a search endpoint, an
\* error result when the endpoint requires POST and there is none.
WebhookPayload(args, matchingKey, endpointConfig, description, requiredMethod, actualMethod, isSearchEndpoint, isSearxEngine) ==
  LET needsPayload == actualMethod = Str("POST") /\ ~Truthy(Get(args, "payload"))
      fromQuery == isSearchEndpoint /\ Truthy(Get(args, "query"))
  IN  IF needsPayload /\ ~fromQuery /\ requiredMethod = Str("POST")
      THEN Plan("return",
             Resolved("error",
               JSONstringify(Obj(
                 << <<"error",
                      PayloadRequiredMessage(matchingKey.s,
                        IF Truthy(description) THEN description.s ELSE "")>>,
                    <<"endpoint_info",
                      Obj(<< <<"name", matchingKey>>,
                             <<"required_method", requiredMethod>>,
                             <<"description", description>> >>)>> >>))),
             "", [NoCall EXCEPT !.config = endpointConfig, !.key = matchingKey.s,
                                !.description = description])
      ELSE WebhookCall(actualMethod, endpointConfig,
                       IF needsPayload /\ fromQuery
                       THEN Obj(<< <<"query", Get(args, "query")>> >>)
                       ELSE Get(args, "payload"),
                       matchingKey, description, isSearchEndpoint, isSearxEngine)

\* The method to use and the two endpoint flags, from the endpoint's
\* description, required method and url.
WebhookMethod(args, matchingKey, endpointConfig, description, requiredMethod, url) ==
  IF Truthy(description) /\ description.k # "str"
    THEN Throw("toLowerCase is not a function")
  ELSE IF url.k \notin {"str", "undef"} THEN Throw("includes is not a function")
  ELSE WebhookPayload(args, matchingKey, endpointConfig, description, requiredMethod,
         IF requiredMethod # Str("ANY") THEN requiredMethod
         ELSE IF Truthy(Get(args, "method")) THEN Get(args, "method") ELSE Str("GET"),
         IncludesSearch(matchingKey.s)
           \/ (Truthy(description) /\ IncludesSearch(description.s)),
         isSearxngEndpoint(url.s, matchingKey.s,
                           IF Truthy(description) THEN description.s ELSE ""))

\* An endpoint step that takes an endpoint stored as a URL string for a
\* GET endpoint
WebhookEndpointLegacyGet(args, savedEndpoints, matchingKey, endpointConfig) ==
  IF ~Truthy(endpointConfig)
    THEN Plan("return",
              Resolved("error",
                JSONstringify(Obj(
                  << <<"error", NotFoundMessage(Get(args, "endpoint_key").s, savedEndpoints)>>,
                     <<"available_endpoints", ObjectKeys(savedEndpoints)>> >>))),
              "", NoCall)
  ELSE WebhookMethod(args, matchingKey, endpointConfig,
         IF IsObject(endpointConfig) /\ Truthy(Get(endpointConfig, "description"))
         THEN Get(endpointConfig, "description") ELSE Null,
         IF IsObject(endpointConfig) /\ Truthy(Get(endpointConfig, "method"))
         THEN Get(endpointConfig, "method")
         ELSE IF endpointConfig.k = "str" THEN Str("GET") ELSE Str("ANY"),
         IF endpointConfig.k = "str" THEN endpointConfig
         ELSE Get(endpointConfig, "url"))

\* The endpoint has been looked up: not found, or on to its description
\* and required method.
WebhookEndpoint(args, savedEndpoints, matchingKey, endpointConfig) ==
  IF ~Truthy(endpointConfig)
    THEN Plan("return",
              Resolved("error",
                JSONstringify(Obj(
                  << <<"error", NotFoundMessage(Get(args, "endpoint_key").s, savedEndpoints)>>,
                     <<"available_endpoints", ObjectKeys(savedEndpoints)>> >>))),
              "", NoCall)
  ELSE WebhookMethod(args, matchingKey, endpointConfig,
         IF IsObject(endpointConfig) /\ Truthy(Get(endpointConfig, "description"))
         THEN Get(endpointConfig, "description") ELSE Null,
         IF IsObject(endpointConfig) /\ Truthy(Get(endpointConfig, "method"))
         THEN Get(endpointConfig, "method") ELSE Str("ANY"),
         IF endpointConfig.k = "str" THEN endpointConfig
         ELSE Get(endpointConfig, "url"))

\* The case-insensitive scan has found the key found, or nothing.
WebhookScan(args, savedEndpoints, found) ==
  WebhookEndpoint(args, savedEndpoints, found,
                  IF Truthy(found) THEN Get(savedEndpoints, found.s) ELSE Undef)

\* A lookup that tries the normalized key before the key as given
WebhookLookupNormalizedFirst(args, savedEndpoints, endpoint_key, normalizedKey) ==
  IF Truthy(Get(savedEndpoints, normalizedKey))
    THEN WebhookEndpoint(args, savedEndpoints, Str(normalizedKey),
                         Get(savedEndpoints, normalizedKey))
  ELSE IF Truthy(Get(savedEndpoints, endpoint_key.s))
    THEN WebhookEndpoint(args, savedEndpoints, endpoint_key,
                         Get(savedEndpoints, endpoint_key.s))
  ELSE WebhookScan(args, savedEndpoints, FindKey(savedEndpoints.items, normalizedKey))

\* A lookup of args.endpoint_key as given and nothing more
WebhookLookupExact(args, savedEndpoints, endpoint_key, normalizedKey) ==
  WebhookEndpoint(args, savedEndpoints, endpoint_key,
                  Get(savedEndpoints, endpoint_key.s))

\* The lookup of args.endpoint_key: as given, then normalized, then by a
\* case-insensitive scan of the stored keys.
WebhookLookup(args, savedEndpoints, endpoint_key, normalizedKey) ==
  IF Truthy(Get(savedEndpoints, endpoint_key.s))
    THEN WebhookEndpoint(args, savedEndpoints, endpoint_key,
                         Get(savedEndpoints, endpoint_key.s))
  ELSE IF Truthy(Get(savedEndpoints, normalizedKey))
    THEN WebhookEndpoint(args, savedEndpoints, Str(normalizedKey),
                         Get(savedEndpoints, normalizedKey))
  ELSE WebhookScan(args, savedEndpoints, FindKey(savedEndpoints.items, normalizedKey))

\* webhook_call.execute with the stored endpoints parsed as saved.
WebhookStored(args, saved) ==
  IF ~saved.ok THEN Throw("Unexpected token")
  ELSE IF saved.val.k = "null" \/ args.k = "null"
    THEN Throw("Cannot read properties of null")
  ELSE IF Get(args, "endpoint_key").k # "str" THEN Throw("replace is not a function")
  ELSE WebhookLookup(args, saved.val, Get(args, "endpoint_key"),
                     ToLowerCase(ReplaceUnderscores(Get(args, "endpoint_key").s)))

\* webhook_call.execute up to the call of callWebhook: it returns a result
\* ("return"), throws into its catch block ("throw"), or calls the webhook
\* ("call") with the method, configuration and payload it has settled on.
WebhookPlan(args, item) == WebhookStored(args, ParseStored(item))

\* callWebhook reads url.startsWith before it fetches: a configuration
\* object without a url makes it throw without any request.
WebhookHasUrl(call) ==
  IF call.config.k = "str" THEN TRUE ELSE Get(call.config, "url").k = "str"

(***************************************************************************)
(* The request of callWebhook and its way through the proxy.  A request   *)
(* is held in parts: the URL without its query string (target), the query  *)
(* parameters in order as <<name, value>> pairs, the headers as an object  *)
(* and the body.  encodeURIComponent and the query parser of the proxy     *)
(* are the two directions between a URL and its place among the            *)
(* parameters.  Headers the browser adds on its own are left out.          *)
(***************************************************************************)
Request(method, target, query, headers, body) ==
  [method |-> method, target |-> target, query |-> query, headers |-> headers,
   body |-> body]

NoRequest == Request("", "", <<>>, Obj(<<>>), Undef)

\* url.startsWith('http') && !url.includes(window.location.host)
isExternalUrl(url, host) == StartsWithHttp(url) /\ ~IncludesHost(url, host)

\* The URLSearchParams built from Object.entries(payload): a string as it
\* is, any other value through JSON.stringify.
URLSearchParams(payload) ==
  IF payload.k # "obj" THEN <<>>
  ELSE [i \in 1..Len(payload.items) |->
          <<payload.items[i][1],
            IF payload.items[i][2].k = "str" THEN payload.items[i][2]
            ELSE JSONstringify(payload.items[i][2])>>]

\* cleanSearxngParams(params)
cleanSearxngParams(params) ==
  SelectSeq(params, LAMBDA p : p[1] \notin {"category_general", "categories_general"})

\* Headers that carry a stored bearer token whatever authMethod says
WebhookHeadersAnyToken(c) ==
  Obj(IF IsObject(c) /\ Truthy(Get(c, "bearerToken"))
      THEN << <<"Content-Type", Str("application/json")>>,
              <<"Authorization", Fmt("Bearer %", <<Get(c, "bearerToken").s>>)>> >>
      ELSE << <<"Content-Type", Str("application/json")>> >>)

\* The headers of callWebhook: Content-Type and what the switch on
\* authMethod adds.
WebhookHeaders(c) ==
  Obj(IF ~IsObject(c) THEN << <<"Content-Type", Str("application/json")>> >>
      ELSE CASE Get(c, "authMethod") = Str("apiKey") /\ Truthy(Get(c, "apiKey")) ->
                  PutMember(<< <<"Content-Type", Str("application/json")>> >>,
                            IF Truthy(Get(c, "apiKeyHeaderName"))
                            THEN Get(c, "apiKeyHeaderName").s ELSE "X-API-Key",
                            Get(c, "apiKey"))
             [] Get(c, "authMethod") = Str("basicAuth") /\ Truthy(Get(c, "username")) ->
                  << <<"Content-Type", Str("application/json")>>,
                     <<"Authorization",
                       Fmt("Basic btoa(%:%)",
                           <<Get(c, "username").s,
                             IF Truthy(Get(c, "password")) THEN Get(c, "password").s
                             ELSE "">>)>> >>
             [] Get(c, "authMethod") = Str("bearerToken") /\ Truthy(Get(c, "bearerToken")) ->
                  << <<"Content-Type", Str("application/json")>>,
                     <<"Authorization", Fmt("Bearer %", <<Get(c, "bearerToken").s>>)>> >>
             [] /\ Get(c, "authMethod") = Str("customHeader")
                /\ Truthy(Get(c, "customHeaderName"))
                /\ Truthy(Get(c, "customHeaderValue")) ->
                  PutMember(<< <<"Content-Type", Str("application/json")>> >>,
                            Get(c, "customHeaderName").s, Get(c, "customHeaderValue"))
             [] OTHER -> << <<"Content-Type", Str("application/json")>> >>)

\* The fetch of callWebhook for the method it enforces, on the page
\* served from host: an external URL goes to the proxy as its url
\* parameter, the payload of a GET becomes query parameters, the payload
\* of any other method the JSON body of a POST.
WebhookFetch(requiredMethod, url, searx, headers, payload, external) ==
  Request(IF requiredMethod = "GET" THEN "GET" ELSE "POST",
          IF external THEN "/api/proxy" ELSE url,
          (IF external THEN << <<"url", Str(url)>> >> ELSE <<>>)
          \o (IF requiredMethod # "GET" \/ ~Truthy(payload) THEN <<>>
              ELSE IF searx THEN cleanSearxngParams(URLSearchParams(payload))
              ELSE URLSearchParams(payload)),
          headers,
          IF requiredMethod = "GET" THEN Undef
          ELSE IF Truthy(payload) THEN JSONstringify(payload)
          ELSE JSONstringify(Obj(<<>>)))

\* callWebhook with the method passed in, whatever the endpoint declares
WebhookRequestAsPassed(method, c, payload, host) ==
  WebhookFetch(method,
               IF c.k = "str" THEN c.s ELSE Get(c, "url").s,
               isSearxngEndpoint(IF c.k = "str" THEN c.s ELSE Get(c, "url").s, "",
                                 IF IsObject(c) /\ Get(c, "description").k = "str"
                                 THEN Get(c, "description").s ELSE ""),
               WebhookHeaders(c), payload,
               isExternalUrl(IF c.k = "str" THEN c.s ELSE Get(c, "url").s, host))

\* callWebhook(method, endpointConfig, payload) up to its fetch: the
\* method of the endpoint is enforced over the method passed in.
WebhookRequest(method, c, payload, host) ==
  WebhookFetch(IF IsObject(c) /\ Truthy(Get(c, "method")) /\ Get(c, "method") # Str("ANY")
               THEN Get(c, "method").s ELSE method,
               IF c.k = "str" THEN c.s ELSE Get(c, "url").s,
               isSearxngEndpoint(IF c.k = "str" THEN c.s ELSE Get(c, "url").s, "",
                                 IF IsObject(c) /\ Get(c, "description").k = "str"
                                 THEN Get(c, "description").s ELSE ""),
               WebhookHeaders(c), payload,
               isExternalUrl(IF c.k = "str" THEN c.s ELSE Get(c, "url").s, host))

\* headersToForward.forEach(...): the header name of the incoming request
\* (names arrive in lower case) is copied when it is present.
ForwardHeader(fields, headers, name) ==
  IF \E i \in 1..Len(headers.items) : ToLowerCase(headers.items[i][1]) = name
  THEN PutMember(fields, name,
                 headers.items[CHOOSE i \in 1..Len(headers.items) :
                                 ToLowerCase(headers.items[i][1]) = name][2])
  ELSE fields

\* app.all("/api/proxy"): the request the proxy makes for the request it
\* has received.  Of the headers it copies content-type, accept and
\* x-api-key; a JSON body is parsed and serialized again; the parameters
\* of a GET other than url are appended to the target.
ProxyRequest(req) ==
  Request(req.method, req.query[1][2].s,
          IF req.method = "GET"
          THEN SelectSeq(Tail(req.query), LAMBDA p : p[1] # "url")
          ELSE <<>>,
          Obj(ForwardHeader(
                ForwardHeader(
                  ForwardHeader(<< <<"User-Agent", Str("Mozilla/5.0")>>,
                                   <<"Accept", Str("application/json, text/plain, */*")>> >>,
                                req.headers, "content-type"),
                  req.headers, "accept"),
                req.headers, "x-api-key")),
          IF req.method = "POST" THEN JSONstringify(JSONparse(req.body).val)
          ELSE Undef)

\* The request that reaches the endpoint.
EndpointRequest(req) ==
  IF req.target = "/api/proxy" THEN ProxyRequest(req) ELSE req

\* The answer of the proxy for the answer of the endpoint: the status and
\* the content type are copied, a JSON body is parsed and serialized
\* again, and a failure of its own fetch or of that parse is a 500.
ProxyResponse(resp) ==
  IF resp.kind = "neterr" \/ (resp.ctype = "application/json" /\ ~JSONparse(resp.body).ok)
  THEN Response("http", FALSE, "500", "application/json",
                JSONstringify(Obj(<< <<"error", Str("Proxy request failed")>> >>)))
  ELSE IF resp.ctype = "application/json"
  THEN [resp EXCEPT !.body = JSONstringify(JSONparse(resp.body).val)]
  ELSE resp

\* The success result of webhook_call.execute for the data of callWebhook.
WebhookSuccess(call, data) ==
  Resolved("success",
    JSONstringify(Obj(
      << <<"endpoint", Str(call.key)>>, <<"data", data>> >>
      \o (IF Truthy(data) /\ Truthy(Get(data, "_non_json_response"))
          THEN << <<"format", Str("text")>> >> ELSE <<>>)
      \o << <<"endpoint_description",
              IF Truthy(call.description) THEN call.description
              ELSE Str("No description available")>>,
            <<"note", Str(IF call.search THEN "summarize search results"
                          ELSE "process this data")>> >>)))

\* callWebhook has settled with r.
WebhookSettled(call, r, item) ==
  IF r.thrown THEN WebhookCatch(r.msg, item) ELSE WebhookSuccess(call, r.val)

\* webhook_call.execute after callWebhook has settled; item is the stored
\* endpoints as the catch block reads them.
WebhookFinish(call, resp, item) ==
  IF ~WebhookHasUrl(call)
    THEN WebhookCatch("Cannot read properties of undefined", item)
  ELSE WebhookSettled(call, callWebhook(resp), item)

\* webhook_call.execute for the plan it has made.
WebhookRun(plan, item0, item1, resp) ==
  CASE plan.kind = "return" -> plan.result
    [] plan.kind = "throw" -> WebhookCatch(plan.msg, item0)
    [] plan.kind = "call" -> WebhookFinish(plan.call, resp, item1)

\* web_search.execute up to the call of fetchSearchResults: TRUE when the
\* query passes the check and the search request is made.
SearchQueryOk(args) ==
  /\ args.k # "null"
  /\ Truthy(Get(args, "query")) /\ Get(args, "query").k = "str"
  /\ ~(Get(args, "query").items = <<>> /\ IsBlank(Get(args, "query").s))

\* The message of the error web_search.execute throws before it searches.
SearchQueryError(args) ==
  IF args.k = "null" THEN "Cannot read properties of null"
  ELSE IF ~Truthy(Get(args, "query")) THEN "Search query cannot be empty"
  ELSE IF Get(args, "query").k # "str" THEN "trim is not a function"
  ELSE "Search query cannot be empty"

SearchError(msg) ==
  Resolved("error",
    JSONstringify(Obj(<< <<"error", Str("Search failed")>>, <<"message", Str(msg)>> >>)))

\* SearchSettled with a handler that returns its data as it is: the
\* results array instead of its JSON text.
SearchSettledUnencoded(r) ==
  IF r.thrown THEN SearchError(r.msg) ELSE Resolved("success", r.val)

\* fetchSearchResults has settled with r.
SearchSettled(r) ==
  IF r.thrown THEN SearchError(r.msg) ELSE Resolved("success", JSONstringify(r.val))

\* The plan of webhook_call.execute ends in a request.
WebhookRequests(plan) == plan.kind = "call" /\ WebhookHasUrl(plan.call)

\* TRUE when tools[tool].execute(args) waits for an HTTP response before
\* it settles; otherwise it settles without leaving the client.
UsesNetwork(tool, args, item) ==
  CASE tool = "web_search" -> SearchQueryOk(args)
    [] tool = "webhook_call" -> WebhookRequests(WebhookPlan(args, item))
    [] OTHER -> FALSE

\* tools[tool].execute(args): the settled promise.  item0 is the stored
\* endpoints when the handler starts, item1 when it settles, resp the
\* HTTP response (unused by a handler that makes no request).
execute(tool, args, item0, item1, resp) ==
  CASE tool = "display_color_palette" ->
         Resolved("success", JSONstringify(args))
    [] tool = "web_search" ->
         IF ~SearchQueryOk(args) THEN SearchError(SearchQueryError(args))
         ELSE SearchSettled(fetchSearchResults(resp))
    [] tool = "webhook_call" ->
         WebhookRun(WebhookPlan(args, item0), item0, item1, resp)

(***************************************************************************)
(* The enablement gate.  win is "none" when there is no window (server    *)
(* side rendering), "throws" when reading window.__ENV__ throws, and       *)
(* "ok" otherwise; env is window.__ENV__ (undefined or an object).         *)
(***************************************************************************)
\* availableEnvVars with a filter on truthiness: key => envVars[key]
availableEnvVarsTruthy(env) ==
  LET envVars == IF Truthy(env) THEN env ELSE Obj(<<>>)
  IN  {envVars.items[i][1] : i \in {j \in 1..Len(envVars.items) :
                                     Truthy(Get(envVars, envVars.items[j][1]))}}

\* Object.keys(envVars).filter(key => envVars[key] === true)
availableEnvVars(env) ==
  LET envVars == IF Truthy(env) THEN env ELSE Obj(<<>>)
  IN  {envVars.items[i][1] : i \in {j \in 1..Len(envVars.items) :
                                     Get(envVars, envVars.items[j][1]) = Bool("true")}}

isToolEnabled(tool, win, env) ==
  IF win = "none" THEN TRUE
  ELSE IF requiredEnvVars(tool) = <<>> THEN TRUE
  ELSE IF win = "throws" THEN FALSE
  ELSE \A i \in 1..Len(requiredEnvVars(tool)) :
          requiredEnvVars(tool)[i] \in availableEnvVars(env)

\* Array.prototype.filter
RECURSIVE Filter(_, _, _)
Filter(names, win, env) ==
  IF names = <<>> THEN <<>>
  ELSE (IF isToolEnabled(names[1], win, env) THEN <<names[1]>> ELSE <<>>)
       \o Filter(Tail(names), win, env)

\* getAllToolDefinitions(): the names of the definitions it returns.
getAllToolDefinitions(win, env) == Filter(ToolNames, win, env)


(***************************************************************************)
(* The App component (session state, event log, data channel) and the      *)
(* ToolPanel component (session effect, function-call effect).             *)
(***************************************************************************)
VARIABLES
  isSessionActive,   \* App state
  events,            \* App state: the event log, newest first
  dataChannel,       \* App state: 0 for null, else the id of the channel
  peerConnection,    \* App ref peerConnection.current: TRUE when set
  toolsAdded,        \* App state: "array" (the initial []), "true", "false"
  activeToolCall,    \* App state: the function_call item, NoItem for null
  toolResult,        \* ToolPanel state: NoResult for null
  isLoadingTool,     \* ToolPanel state
  lastSentEnvHash,   \* ToolPanel state
  memoEnvVars,       \* the envVars the memoized sessionUpdatePayload is of
  memoTools,         \* sessionUpdatePayload.session.tools
  envVars,           \* the envVars prop of ToolPanel
  windowEnv,         \* window.__ENV__
  readyState,        \* readyState of every data channel created so far
  closeEvent,        \* the channels whose close event is yet to fire
  attached,          \* the channel the App's data channel effect last ran for
  renderPending,     \* an App state update is waiting for its render
  unmounted,         \* React has unmounted the tree after an uncaught error
  pendingHandlers,   \* tool handlers started and not yet settled
  textTimers,        \* pending setTimeout callbacks of sendTextMessage
  isActivating,      \* SessionStopped state
  envChanges,        \* number of capability snapshots reported so far
  webhookEndpoints,  \* localStorage item webhookEndpoints
  toolCallHistory,   \* localStorage item toolCallHistory, newest first
  wire,              \* every message sent over a data channel, in order
  executed,          \* log of the handlers started by tool.execute, in order
  delivered,         \* log of the server events received, in order
  probe,             \* a tool handler or the gate run on its own (SpecTools)
  manager,           \* the state of the WebhookManager component
  startSessionCalls, \* the number of times startSession has been called
  clipboard          \* the state of the ClipboardManager component

vars == <<isSessionActive, events, dataChannel, peerConnection, toolsAdded,
          activeToolCall, toolResult, isLoadingTool, lastSentEnvHash,
          memoEnvVars, memoTools, envVars, windowEnv, readyState, closeEvent,
          attached, renderPending, unmounted, pendingHandlers, textTimers,
          isActivating, envChanges, webhookEndpoints, toolCallHistory, wire, executed,
          delivered, probe, manager, startSessionCalls, clipboard>>

\* Bounds of the model.
MaxSessions == 1

MaxDeliveries == 2

MaxCalls == 3

MaxTextMessages == 1

MaxEnvChanges == 1
MaxEnvSessions == 2

MaxReads == 1

MaxOperations == 4

MaxChanges == 3

\* updated.slice(0, 50)
HistoryLimit == 50

\* An item: response.output[0] of a server event, or the item of a
\* conversation.item.create sent by the client.
Item(type, call_id, name, arguments, output) ==
  [type |-> type, call_id |-> call_id, name |-> name,
   arguments |-> arguments, output |-> output]

NoItem == Item("", "", "", Undef, Undef)

FunctionCall(call_id, name, arguments) ==
  Item("function_call", call_id, name, arguments, Undef)

\* An entry of the event log, and a message on the wire.  item is the
\* output item of a server event that the function-call effect looks at,
\* output the whole of response.output where an event carries more than
\* that item.
Event(source, type, item, tools) ==
  [source |-> source, type |-> type, item |-> item, tools |-> tools,
   output |-> <<>>]

\* The first function call of the output, wherever it stands
FirstFunctionCall(output) ==
  IF \E i \in 1..Len(output) : output[i].type = "function_call"
  THEN output[CHOOSE i \in 1..Len(output) :
                /\ output[i].type = "function_call"
                /\ \A j \in 1..(i - 1) : output[j].type # "function_call"]
  ELSE output[1]

\* latestEvent.response?.output?.[0]: the output item the function-call
\* effect looks at.
FirstOutputItem(output) == output[1]

\* A response.done event of the server with the given output items.
ResponseDone(output) ==
  [Event("server", "response.done", FirstOutputItem(output), <<>>)
     EXCEPT !.output = output]

NoResult == [type |-> "", data |-> Undef]

\* Arguments the model delivers: an object, the blank string, a text
\* that is not JSON.
ArgsQuery == JSONstringify(Obj(<< <<"query", Str("cats")>> >>))

ArgsNoEndpoint == JSONstringify(Obj(<< <<"endpoint_key", Str("foo")>> >>))

ArgsBlank == Text(<<>>)

ArgsMalformed == Text(<<P("{"), S("query")>>)

\* The function calls the server may issue.
FunctionCalls ==
  { FunctionCall("call_1", "web_search", ArgsQuery),
    FunctionCall("call_2", "web_search", ArgsQuery),
    FunctionCall("call_2", "display_color_palette", ArgsBlank),
    FunctionCall("call_1", "webhook_call", ArgsNoEndpoint),
    FunctionCall("call_2", "web_search", ArgsMalformed),
    FunctionCall("call_1", "unknown_tool", ArgsQuery),
    FunctionCall("", "web_search", ArgsQuery) }

SessionCreated == Event("server", "session.created", NoItem, <<>>)

\* The events the server may send over the data channel.
ServerEvents ==
  { Event("server", "response.done", fc, <<>>) : fc \in FunctionCalls }
  \cup { SessionCreated }

\* Two calls of a tool that waits for a response, with different call_ids.
CallEvents ==
  { Event("server", "response.done", FunctionCall("call_1", "web_search", ArgsQuery), <<>>),
    Event("server", "response.done", FunctionCall("call_2", "web_search", ArgsQuery), <<>>) }

\* The events delivered next to the user's text messages.
TextEvents ==
  { Event("server", "response.done", FunctionCall("call_1", "web_search", ArgsQuery), <<>>),
    Event("server", "response.done", FunctionCall("call_2", "webhook_call", ArgsNoEndpoint), <<>>) }

\* The HTTP responses a handler may receive.
Responses ==
  { Response("http", TRUE, "200", "application/json",
             JSONstringify(Obj(<< <<"results", Arr(<<Str("r1")>>)>> >>))),
    NetworkFailure }

\* The capability snapshots the provider may report.
EnvSnapshots ==
  { Obj(<< <<"SEARXNG_URL", Bool("true")>> >>),
    Obj(<< <<"SEARXNG_URL", Bool("false")>> >>) }

InitialEnvVars == Obj(<< <<"SEARXNG_URL", Bool("true")>> >>)

\* The stored endpoints of this model: one POST endpoint and a legacy URL.
StoredEndpoints ==
  JSONstringify(Obj(<<
    <<"n8n-brave-search",
      Obj(<< <<"url", Str("https://n8n.example/hook")>>, <<"method", Str("POST")>>,
             <<"authMethod", Str("none")>>, <<"description", Str("web search hook")>> >>)>>,
    <<"bar-baz", Str("https://legacy.example/x")>> >>))

\* An item that WebhookManager did not write: it is not JSON.
CorruptEndpoints == Text(<<P("{"), S("n8n-brave-search")>>)

(***************************************************************************)
(* The WebhookManager component (client/components/WebhookManager.jsx).    *)
(* Its state is the record manager:                                        *)
(*   endpoints   the state webhookEndpoints, an object                     *)
(*   formData    the form, an object of strings                            *)
(*   editingKey  the key being edited, null when none                      *)
(*   decrypt     the file waiting for a password (showDecryptModal), or    *)
(*               undefined                                                 *)
(*   reads       the FileReaders at work: what each will load and the      *)
(*               endpoints of the render that started it                   *)
(*   operations  the number of things the user has done so far            *)
(* The localStorage item it writes is the variable webhookEndpoints.       *)
(***************************************************************************)
\* The placeholder shown for a stored credential (sixteen bullets).
Mask == Str("****************")

\* s.trim()
Trim(s) ==
  CASE s = " hook-a " -> "hook-a"
    [] s = "   " -> ""
    [] OTHER -> s

\* s.replace(/\s+/g, '-')
WhitespaceToHyphens(s) ==
  CASE s = "My Hook" -> "My-Hook"
    [] s = "Bad Key" -> "Bad-Key"
    [] s = "   " -> "-"
    [] s = " hook-a " -> "-hook-a-"
    [] OTHER -> s

\* ToLowerCase of the keys of the manager.
ManagerLowerCase(s) ==
  CASE s = "My-Hook" -> "my-hook"
    [] s = "My Hook" -> "my hook"
    [] s = "Bad Key" -> "bad key"
    [] s = "Bad-Key" -> "bad-key"
    [] s = "Bad_Key" -> "bad_key"
    [] s = "X-Auth-Token" -> "x-auth-token"
    [] s = "X-Trace" -> "x-trace"
    [] OTHER -> s

\* formatEndpointKey(key)
formatEndpointKey(key) == ManagerLowerCase(WhitespaceToHyphens(Trim(key)))

\* s.includes('_')
IncludesUnderscore(s) == s \in {"my_hook", "Bad_Key", "bad_key"}

\* /\s/.test(s)
IncludesWhitespace(s) == s \in {"My Hook", "my hook", "Bad Key", "bad key", "   ", " hook-a "}

\* new URL(s) does not throw
IsValidUrl(s) ==
  s \in {"https://a.example/h", "https://b.example/h", "https://c.example/h",
         "https://legacy.example/x"}

\* description.trim().length < 10
IsShort(description) == description \notin {"posts the payload {text} to the hook"}

\* name.toLowerCase().includes('token'), or 'key', or 'auth'
IsCredentialName(name) == ManagerLowerCase(name) \in {"x-auth-token", "x-api-key"}

\* description.toLowerCase().includes('query')
IncludesQuery(description) == description \in {"searches the web for the query"}

\* The form when it is empty: resetForm().
EmptyForm ==
  Obj(<< <<"key", Str("")>>, <<"url", Str("")>>, <<"method", Str("ANY")>>,
         <<"authMethod", Str("none")>>, <<"apiKeyHeaderName", Str("X-API-Key")>>,
         <<"apiKey", Str("")>>, <<"username", Str("")>>, <<"password", Str("")>>,
         <<"bearerToken", Str("")>>, <<"customHeaderName", Str("")>>,
         <<"customHeaderValue", Str("")>>, <<"description", Str("")>> >>)

Manager(endpoints, formData, editingKey, decrypt, reads) ==
  [endpoints |-> endpoints, formData |-> formData, editingKey |-> editingKey,
   decrypt |-> decrypt, reads |-> reads, operations |-> 0]

\* The component after its mount effect has read the stored item.
ManagerMounted(stored) ==
  Manager(IF Truthy(stored) /\ JSONparse(stored).ok THEN JSONparse(stored).val
          ELSE Obj(<<>>),
          EmptyForm, Null, Undef, <<>>)

\* The errors handleSubmit finds in the form; the submission goes on when
\* there is none.
FormErrors(formData) ==
  (IF Trim(Get(formData, "key").s) = "" \/ IncludesUnderscore(Get(formData, "key").s)
   THEN {"key"} ELSE {})
  \cup (IF Trim(Get(formData, "url").s) = "" \/ ~IsValidUrl(Get(formData, "url").s)
        THEN {"url"} ELSE {})
  \cup (IF \/ /\ Get(formData, "method") = Str("POST")
                 /\ (~Truthy(Get(formData, "description"))
                     \/ IsShort(Get(formData, "description").s))
              \/ /\ IncludesSearch(Get(formData, "key").s)
                 /\ (~Truthy(Get(formData, "description"))
                     \/ ~IncludesQuery(Get(formData, "description").s))
        THEN {"description"} ELSE {})

\* A credential of the form: the stored one when the form shows the mask
\* for it and the endpoint being edited has it.
Unmasked(formData, existingConfig, field) ==
  IF /\ Get(formData, field) = Mask
     /\ existingConfig.k # "undef"
     /\ Truthy(Get(existingConfig, field))
  THEN Get(existingConfig, field) ELSE Get(formData, field)

\* The custom header value: the stored one when the form shows the mask
\* and the stored header name looks like a credential.
UnmaskedHeaderValue(formData, existingConfig) ==
  IF /\ Get(formData, "customHeaderValue") = Mask
     /\ existingConfig.k # "undef"
     /\ Get(existingConfig, "customHeaderName").k = "str"
     /\ IsCredentialName(Get(existingConfig, "customHeaderName").s)
  THEN Get(existingConfig, "customHeaderValue")
  ELSE Get(formData, "customHeaderValue")

\* addOrUpdateEndpoint reads existingConfig.customHeaderName.toLowerCase()
\* for a masked header value, and throws when the endpoint being edited
\* has no header name.
SaveThrows(formData, existingConfig) ==
  /\ Get(formData, "customHeaderValue") = Mask
  /\ Truthy(existingConfig)
  /\ Get(existingConfig, "customHeaderName").k # "str"

\* The record addOrUpdateEndpoint stores for the form.
FormRecord(formData, existingConfig) ==
  Obj(<< <<"url", Get(formData, "url")>>, <<"method", Get(formData, "method")>>,
         <<"authMethod", Get(formData, "authMethod")>>,
         <<"apiKeyHeaderName", Get(formData, "apiKeyHeaderName")>>,
         <<"apiKey", Unmasked(formData, existingConfig, "apiKey")>>,
         <<"username", Get(formData, "username")>>,
         <<"password", Unmasked(formData, existingConfig, "password")>>,
         <<"bearerToken", Unmasked(formData, existingConfig, "bearerToken")>>,
         <<"customHeaderName", Get(formData, "customHeaderName")>>,
         <<"customHeaderValue", UnmaskedHeaderValue(formData, existingConfig)>>,
         <<"description", Get(formData, "description")>> >>)

\* delete obj[key]
DeleteMember(obj, key) == Obj(SelectSeq(obj.items, LAMBDA f : f[1] # key))

\* {...a, ...b}
Spread(a, b) ==
  IF b.k # "obj" THEN a
  ELSE LET RECURSIVE put(_, _)
           put(fields, i) ==
             IF i > Len(b.items) THEN fields
             ELSE put(PutMember(fields, b.items[i][1], b.items[i][2]), i + 1)
       IN  Obj(put(a.items, 1))

\* The endpoints addOrUpdateEndpoint saves: the form's record under the
\* formatted key, and the edited key deleted when it is another one.
UpdatedEndpoints(endpoints, formData, editingKey) ==
  LET formattedKey == formatEndpointKey(Get(formData, "key").s)
      existingConfig == IF Truthy(editingKey) THEN Get(endpoints, editingKey.s) ELSE Undef
      updated == Obj(PutMember(endpoints.items, formattedKey,
                               FormRecord(formData,
                                          IF Truthy(existingConfig) THEN existingConfig
                                          ELSE Undef)))
  IN  IF Truthy(editingKey) /\ editingKey.s # formattedKey
      THEN DeleteMember(updated, editingKey.s) ELSE updated

\* A form field of startEdit that is masked when the endpoint has it.
Masked(config, field) ==
  IF IsObject(config) /\ Truthy(Get(config, field)) THEN Mask ELSE Str("")

\* The field of the stored record as the form shows it, or value for an
\* endpoint stored as a URL string.
Shown(config, field, value) ==
  IF IsObject(config) THEN Get(config, field) ELSE Str(value)

\* The form startEdit(key) fills in for the stored config.
EditForm(key, config) ==
  Obj(<< <<"key", Str(key)>>,
         <<"url", IF IsObject(config) THEN Get(config, "url") ELSE config>>,
         <<"method", Shown(config, "method", "ANY")>>,
         <<"authMethod", IF IsObject(config) /\ Truthy(Get(config, "authMethod"))
                         THEN Get(config, "authMethod") ELSE Str("none")>>,
         <<"apiKeyHeaderName", Shown(config, "apiKeyHeaderName", "X-API-Key")>>,
         <<"apiKey", Masked(config, "apiKey")>>,
         <<"username", Shown(config, "username", "")>>,
         <<"password", Masked(config, "password")>>,
         <<"bearerToken", Masked(config, "bearerToken")>>,
         <<"customHeaderName", Shown(config, "customHeaderName", "")>>,
         <<"customHeaderValue",
           IF ~IsObject(config) THEN Str("")
           ELSE IF /\ Truthy(Get(config, "customHeaderValue"))
                   /\ IsCredentialName(Get(config, "customHeaderName").s)
                THEN Mask ELSE Get(config, "customHeaderValue")>>,
         <<"description", Shown(config, "description", "")>> >>)

\* startEdit(key) reads config.customHeaderName.toLowerCase() and throws
\* when the record has a custom header value and no header name.
EditThrows(config) ==
  /\ IsObject(config) /\ Truthy(Get(config, "customHeaderValue"))
  /\ Get(config, "customHeaderName").k # "str"

\* importWebhooks(data) accepts the data: an object (an array is one)
\* whose every value has a url and a method.
ImportAccepted(data) ==
  /\ IsObject(data)
  /\ \A i \in 1..Len(data.items) :
       /\ data.items[i][2].k \notin {"null", "undef"}
       /\ Truthy(Get(data.items[i][2], "url"))
       /\ Truthy(Get(data.items[i][2], "method"))

\* The data as {...data} spreads it: the elements of an array under their
\* indices.
OwnProperties(data) ==
  IF data.k = "arr"
  THEN Obj([i \in 1..Len(data.items) |-> <<ToString(i - 1), data.items[i][2]>>])
  ELSE data

\* importWebhooks(data) of the render whose endpoints are endpoints: the
\* endpoints it saves, or endpoints when it rejects the data.
importWebhooks(endpoints, data) ==
  IF ImportAccepted(data) THEN Spread(endpoints, OwnProperties(data)) ELSE endpoints

(***************************************************************************)
(* ClipboardManager.  Its state is a record:                               *)
(*   history           the localStorage item clipboardHistory, Undef when  *)
(*                     there is none                                       *)
(*   clipboardEntries  the state of the last render                        *)
(*   queued            the value of a setClipboardEntries that waits for   *)
(*                     its render; set says whether there is one           *)
(*   currentEntriesRef currentEntriesRef.current                           *)
(*   customEventRef    customEventRef.current                              *)
(*   timeout           the setTimeout that resets customEventRef is pending*)
(*   eventDue          a clipboard-updated event of ClipboardOutput is due *)
(*   mounted           the effects of the first render have run            *)
(*   changes           the number of changes made so far                   *)
(***************************************************************************)
\* A clipboard entry.
Entry(id) == Obj(<< <<"id", Num(ToString(id))>>, <<"text", Str("t")>> >>)

\* The entries with the given ids, newest first.
Entries(ids) == Arr([i \in 1..Len(ids) |-> Entry(ids[i])])

NoUpdate == [set |-> FALSE, entries |-> Arr(<<>>)]

Update(entries) == [set |-> TRUE, entries |-> entries]

ClipboardConstructed(clipboardHistory) ==
  [history |-> clipboardHistory, clipboardEntries |-> Arr(<<>>), queued |-> NoUpdate,
   currentEntriesRef |-> Arr(<<>>), customEventRef |-> FALSE, timeout |-> FALSE,
   eventDue |-> FALSE, mounted |-> FALSE, changes |-> 0]

\* JSON.parse(localStorage.getItem('clipboardHistory') || '[]'), [] when
\* that throws.
StoredEntries(history) ==
  LET parsed == JSONparse(IF history = Undef THEN JSONstringify(Arr(<<>>)) ELSE history)
  IN  IF parsed.ok THEN parsed.val ELSE Arr(<<>>)

\* loadEntriesFromStorage(): JSON.parse makes a new array, so the
\* setClipboardEntries always brings a render.
loadEntriesFromStorage(c) ==
  [c EXCEPT !.queued = Update(StoredEntries(c.history)),
            !.currentEntriesRef = StoredEntries(c.history)]

\* handleCustomEvent(e): the listener of clipboard-updated.
handleCustomEvent(c) ==
  IF c.customEventRef THEN c
  ELSE [loadEntriesFromStorage(c) EXCEPT !.customEventRef = TRUE, !.timeout = TRUE]

\* The save effect of a render with the entries c.clipboardEntries; the
\* event it dispatches is handled before it returns.
saveEffect(c) ==
  IF Len(c.clipboardEntries.items) > 0 \/ Len(c.currentEntriesRef.items) > 0
  THEN handleCustomEvent([c EXCEPT !.history = JSONstringify(c.clipboardEntries),
                                   !.currentEntriesRef = c.clipboardEntries])
  ELSE c

\* The last effect of the first render: a load, and an item for a store
\* that has none.
forceSync(c) ==
  [loadEntriesFromStorage(c) EXCEPT
     !.history = IF c.history = Undef THEN JSONstringify(Arr(<<>>)) ELSE @]

\* The three effects of the first render, whose clipboardEntries is [].
ClipboardMounted(c) ==
  [forceSync(saveEffect(loadEntriesFromStorage(c))) EXCEPT !.mounted = TRUE]

\* The state the next render will show.
LatestEntries(c) == IF c.queued.set THEN c.queued.entries ELSE c.clipboardEntries

\* prev.filter(entry => entry.id !== id)
WithoutEntry(entries, id) ==
  Arr(SelectSeq([i \in 1..Len(entries.items) |-> entries.items[i][2]],
                LAMBDA entry : Get(entry, "id") # id))

\* The polling interval reloads: the stored entries differ from
\* currentEntriesRef in length or in the id of the first entry.
PollReloads(c) ==
  LET storageEntries == StoredEntries(c.history).items
      current == c.currentEntriesRef.items
  IN  IF Len(storageEntries) # Len(current) THEN TRUE
      ELSE /\ Len(storageEntries) > 0 /\ Len(current) > 0
           /\ Get(storageEntries[1][2], "id") # Get(current[1][2], "id")

\* The state after the components have been constructed, with the given
\* localStorage items webhookEndpoints, toolCallHistory and
\* clipboardHistory.
InitApp(stored, history, clipboardHistory) ==
  /\ manager = ManagerMounted(stored)
  /\ startSessionCalls = 0
  /\ clipboard = ClipboardConstructed(clipboardHistory)
  /\ isSessionActive = FALSE
  /\ events = <<>>
  /\ dataChannel = 0
  /\ peerConnection = FALSE
  /\ toolsAdded = "array"
  /\ activeToolCall = NoItem
  /\ toolResult = NoResult
  /\ isLoadingTool = FALSE
  /\ lastSentEnvHash = Str("")
  /\ envVars = InitialEnvVars
  /\ windowEnv = envVars
  /\ memoEnvVars = envVars
  /\ memoTools = getAllToolDefinitions("ok", windowEnv)
  /\ readyState = <<>>
  /\ closeEvent = {}
  /\ attached = 0
  /\ renderPending = TRUE
  /\ unmounted = FALSE
  /\ pendingHandlers = <<>>
  /\ textTimers = <<>>
  /\ isActivating = FALSE
  /\ envChanges = 0
  /\ webhookEndpoints = stored
  /\ toolCallHistory = history
  /\ wire = <<>>
  /\ executed = <<>>
  /\ delivered = <<>>

\* The state after construction when nothing has been saved to the
\* clipboard yet.
InitPage(stored, history) == InitApp(stored, history, Undef)

\* The state after construction when no tool call has been recorded yet.
InitWith(stored) == InitPage(stored, <<>>)

\* No handler and no gate is run on its own.
NoProbe == [phase |-> "none", tool |-> "", args |-> Undef, stored |-> Undef,
            win |-> "", env |-> Undef, outcome |-> Resolved("", Undef),
            definitions |-> <<>>, host |-> "", plan |-> Plan("", Undef, "", NoCall),
            response |-> NetworkFailure, request |-> NoRequest,
            forwarded |-> NoRequest]

Init ==
  /\ \E stored \in {StoredEndpoints, CorruptEndpoints} : InitWith(stored)
  /\ probe = NoProbe

InitStored == InitWith(StoredEndpoints) /\ probe = NoProbe


(***************************************************************************)
(* sendClientEvent and the settlement of a tool handler.  These run in     *)
(* the middle of an action, so they are operators on a record io of the    *)
(* state they change:                                                      *)
(*   events, wire, toolResult, isLoadingTool, history                      *)
(*   threw   an exception is propagating                                   *)
(***************************************************************************)
IO(ev, w, tr, ld, h, threw) ==
  [events |-> ev, wire |-> w, toolResult |-> tr, isLoadingTool |-> ld,
   history |-> h, threw |-> threw]

\* sendClientEvent(message) of the render in which dataChannel was ch.
\* RTCDataChannel.send throws unless the channel is open.
sendClientEvent(io, ch, message) ==
  IF io.threw THEN io
  ELSE IF ch = 0 THEN io
  ELSE IF readyState[ch] # "open" THEN [io EXCEPT !.threw = TRUE]
  ELSE [io EXCEPT !.wire = Append(@, message),
                  !.events = <<[message EXCEPT !.source = "client"]>> \o @]

FunctionCallOutput(call_id, content) ==
  Event("client", "conversation.item.create",
        Item("function_call_output", call_id, "", Undef, content), <<>>)

ResponseCreate == Event("client", "response.create", NoItem, <<>>)

\* sendResult without the response.create that follows the output
sendResultOnly(io, ch, call_id, content) ==
  IF call_id = "" THEN io
  ELSE sendClientEvent(io, ch, FunctionCallOutput(call_id, content))

\* sendResult(resultData) of the function-call effect
sendResult(io, ch, call_id, content) ==
  IF call_id = "" THEN io
  ELSE sendClientEvent(sendClientEvent(io, ch, FunctionCallOutput(call_id, content)),
                       ch, ResponseCreate)

\* s.toLowerCase().includes('error'), and the same for 'fail' and
\* 'exception', of a token's text.
IncludesError(s) ==
  s \in {"error", "Internal Server Error"}

IncludesFail(s) ==
  s \in {"Search failed", "Failed to fetch", "Search API request failed",
         "Webhook request failed with status: 500",
         "Webhook request failed with status: 404"}

ContentIncludesError(content) ==
  content.k = "text" /\ \E i \in 1..Len(content.toks) : IncludesError(content.toks[i][2])

ContentIncludesFail(content) ==
  content.k = "text" /\ \E i \in 1..Len(content.toks) : IncludesFail(content.toks[i][2])

\* The arguments the dispatcher parses: functionCall.arguments || '{}'
ArgumentsText(toolCall) ==
  IF Truthy(toolCall.arguments) THEN toolCall.arguments ELSE Text(<<P("{"), P("}")>>)

\* An addToToolCallHistory that saves the whole list
addToToolCallHistoryUncut(history, toolCall, result, status) ==
  LET data == Get(result, "data")
  IN  <<[toolName |-> toolCall.name, status |-> status,
         arguments |-> JSONparse(ArgumentsText(toolCall)).val,
         result |-> IF Truthy(data) THEN data ELSE result]>> \o history

\* addToToolCallHistory(toolCall, result, status) when the arguments parse:
\* the new entry goes to the front and the list is cut to HistoryLimit.
addToToolCallHistory(history, toolCall, result, status) ==
  LET data == Get(result, "data")
      newEntry == [toolName |-> toolCall.name, status |-> status,
                   arguments |-> JSONparse(ArgumentsText(toolCall)).val,
                   result |-> IF Truthy(data) THEN data ELSE result]
      updated == <<newEntry>> \o history
  IN  SubSeq(updated, 1, IF Len(updated) < HistoryLimit THEN Len(updated) ELSE HistoryLimit)

\* A .catch callback that shows the error and sends nothing
HandlerCatchSilent(io, ch, toolCall, msg) ==
  LET errorData == Obj(<< <<"message", Str(IF msg # "" THEN msg ELSE "Tool failed")>> >>)
  IN  [io EXCEPT !.threw = FALSE,
                 !.toolResult = [type |-> "error", data |-> errorData],
                 !.history = addToToolCallHistory(@, toolCall, errorData, "error")]

\* The .catch callback of the handler chain.
HandlerCatch(io, ch, toolCall, msg) ==
  LET errorData == Obj(<< <<"message", Str(IF msg # "" THEN msg ELSE "Tool failed")>> >>)
      io1 == [io EXCEPT !.threw = FALSE,
                        !.toolResult = [type |-> "error", data |-> errorData],
                        !.history = addToToolCallHistory(@, toolCall, errorData, "error")]
  IN  sendResult(io1, ch, toolCall.call_id, JSONstringify(errorData))

\* The body of the .then callback for the content parsed as parsed: the
\* tool result and the history entry.  null.error throws inside the try
\* and lands in its catch, like a content that does not parse.
HandlerParsed(io, toolCall, result, parsed) ==
  IF parsed.ok /\ parsed.val.k # "null"
  THEN [io EXCEPT
          !.toolResult = [type |-> toolCall.name, data |-> parsed.val],
          !.history = addToToolCallHistory(@, toolCall,
                        Obj(<< <<"data", parsed.val>> >>),
                        IF \/ (IsObject(parsed.val) /\ Get(parsed.val, "error").k # "undef")
                           \/ (IsObject(parsed.val) /\ Get(parsed.val, "status") = Str("error"))
                           \/ (toolCall.name = "webhook_call"
                               /\ ContentIncludesError(result.content))
                        THEN "error" ELSE "success")]
  ELSE [io EXCEPT
          !.toolResult = [type |-> toolCall.name, data |-> result.content],
          !.history = addToToolCallHistory(@, toolCall,
                        Obj(<< <<"data", result.content>> >>),
                        IF \/ ContentIncludesError(result.content)
                           \/ ContentIncludesFail(result.content)
                        THEN "error" ELSE "success")]

\* A .then callback that sends the result under the call_id of the active
\* call
HandlerThenForActiveCall(io, ch, toolCall, result) ==
  sendResult(HandlerParsed(io, toolCall, result, JSONparse(result.content)),
             ch, activeToolCall.call_id, result.content)

\* The .then callback of the handler chain, for the ToolResult result.
HandlerThen(io, ch, toolCall, result) ==
  sendResult(HandlerParsed(io, toolCall, result, JSONparse(result.content)),
             ch, toolCall.call_id, result.content)

\* An exception of the .then callback (a failed send) is handled by the
\* .catch callback.
HandlerThenCatch(io, ch, toolCall) ==
  IF io.threw THEN HandlerCatch(io, ch, toolCall, "InvalidStateError") ELSE io

\* The .finally callback; an exception of the .catch callback is an
\* unhandled rejection and goes no further.
HandlerFinally(io) == [io EXCEPT !.threw = FALSE, !.isLoadingTool = FALSE]

\* The whole chain Promise.resolve(...).then(...).catch(...).finally(...)
\* for a handler that has settled with outcome.
HandlerSettled(io, ch, toolCall, outcome) ==
  HandlerFinally(IF outcome.rejected
                 THEN HandlerCatch(io, ch, toolCall, outcome.error)
                 ELSE HandlerThenCatch(HandlerThen(io, ch, toolCall, outcome),
                                       ch, toolCall))


(***************************************************************************)
(* The effects of one render.                                              *)
(***************************************************************************)
\* A session effect that does not look at toolsAdded
SessionUpdateDueWhenCreated ==
  LET sessionCreatedEvent == \E i \in 1..Len(events) : events[i].type = "session.created"
      envHash == JSONstringify(envVars)
  IN  sessionCreatedEvent \/ (envVars.items # <<>> /\ envHash # lastSentEnvHash)

\* The session effect sends session.update: a new session, or envVars
\* that differ from what was last sent.
SessionUpdateDue ==
  LET sessionCreatedEvent == \E i \in 1..Len(events) : events[i].type = "session.created"
      isSessionNew == sessionCreatedEvent /\ toolsAdded = "false"
      envHash == JSONstringify(envVars)
  IN  isSessionNew \/ (envVars.items # <<>> /\ envHash # lastSentEnvHash)

\* sessionUpdatePayload of this render (useMemo on envVars)
SessionTools ==
  IF envVars # memoEnvVars THEN getAllToolDefinitions("ok", windowEnv) ELSE memoTools

SessionUpdate == Event("client", "session.update", NoItem, SessionTools)

\* The early returns without the comparison with the active call
DispatchDueAnyCall ==
  /\ events # <<>>
  /\ events[1].source = "server"
  /\ events[1].item.type = "function_call"
  /\ events[1].item.call_id # ""
  /\ IsRegistered(events[1].item.name)

\* The function-call effect goes past its early returns: the newest event
\* is a server event whose first output item is a function call with a
\* call_id other than the active one, naming a registered tool.
DispatchDue ==
  /\ events # <<>>
  /\ events[1].source = "server"
  /\ events[1].item.type = "function_call"
  /\ events[1].item.call_id # ""
  /\ activeToolCall.call_id # events[1].item.call_id
  /\ IsRegistered(events[1].item.name)

\* A handler started by the function-call effect.
Handler(toolCall, args, ch, item) ==
  [toolCall |-> toolCall, args |-> args, channel |-> ch, stored |-> item]

\* The session effect: an inactive session resets the tool state, an
\* active one sends session.update when it is due.
SessionEffect(io) ==
  IF ~isSessionActive THEN [io EXCEPT !.toolResult = NoResult, !.isLoadingTool = FALSE]
  ELSE IF SessionUpdateDue THEN sendClientEvent(io, dataChannel, SessionUpdate)
  ELSE io

\* An active call that is cleared once no handler is pending
NextActiveToolCallIdle(dispatch) ==
  IF dispatch THEN events[1].item
  ELSE IF ~isSessionActive \/ pendingHandlers = <<>> THEN NoItem
  ELSE activeToolCall

\* activeToolCall after the render: setActiveToolCall(functionCall) of the
\* function-call effect, setActiveToolCall(null) of the session effect of
\* an inactive session; nothing else sets it.
NextActiveToolCall(dispatch) ==
  IF dispatch THEN events[1].item
  ELSE IF ~isSessionActive THEN NoItem
  ELSE activeToolCall

\* The state after the effects of the render.  sessionThrew: the session
\* effect threw; dispatch: the function-call effect went past its early
\* returns; started: tool.execute was called; viaNetwork: the handler
\* waits for a response; io: what the effects and microtasks have done.
\* An uncaught exception of an effect makes React unmount the tree, and
\* the cleanup of the data channel effect closes the channel.
Committed(sessionThrew, dispatch, started, viaNetwork, args, io) ==
  LET sent == isSessionActive /\ SessionUpdateDue /\ ~sessionThrew
      crashed == sessionThrew \/ (dispatch /\ ~started)
      \* --- data channel effect of App: cleanup, then new listeners ---
      closing == IF crashed THEN {dataChannel, attached} \ {0}
                 ELSE IF dataChannel # attached THEN {attached} \ {0}
                 ELSE {}
  IN  /\ unmounted' = crashed
      /\ memoEnvVars' = envVars
      /\ memoTools' = SessionTools
      /\ toolsAdded' = IF ~isSessionActive THEN "false"
                       ELSE IF sent THEN "true" ELSE toolsAdded
      /\ activeToolCall' = NextActiveToolCall(dispatch)
      /\ lastSentEnvHash' = IF sent THEN JSONstringify(envVars) ELSE lastSentEnvHash
      /\ events' = io.events
      /\ wire' = io.wire
      /\ toolResult' = io.toolResult
      /\ isLoadingTool' = io.isLoadingTool
      /\ toolCallHistory' = io.history
      /\ executed' =
           IF started
           THEN Append(executed,
                       Handler(events[1].item, args, dataChannel, webhookEndpoints))
           ELSE executed
      /\ pendingHandlers' =
           IF viaNetwork
           THEN Append(pendingHandlers,
                       Handler(events[1].item, args, dataChannel, webhookEndpoints))
           ELSE pendingHandlers
      /\ attached' = dataChannel
      /\ readyState' = [c \in DOMAIN readyState |->
                          IF c \in closing THEN "closed" ELSE readyState[c]]
      /\ closeEvent' = closeEvent \cup {c \in closing : readyState[c] # "closed"}
      /\ renderPending' =
           /\ ~crashed
           /\ \/ toolsAdded' # toolsAdded
              \/ io.events # events
              \/ dispatch
              \/ (~isSessionActive /\ activeToolCall # NoItem)

\* The function-call effect has parsed the arguments and called
\* tool.execute(args); a handler that needs no response settles in the
\* microtasks of this render.
FunctionCallStarted(io, args, viaNetwork) ==
  Committed(FALSE, TRUE, TRUE, viaNetwork, args,
            IF viaNetwork THEN io
            ELSE HandlerSettled(io, dataChannel, events[1].item,
                                execute(events[1].item.name, args, webhookEndpoints,
                                        webhookEndpoints, NetworkFailure)))

\* The function-call effect past its early returns: it records the call,
\* then parses the arguments.  The catch block for the arguments calls
\* addToToolCallHistory, which parses the same arguments again outside
\* any try.
FunctionCallDispatched(io, parsedArgs) ==
  IF ~parsedArgs.ok
  THEN Committed(FALSE, TRUE, FALSE, FALSE, Undef,
                 [io EXCEPT !.toolResult = NoResult, !.isLoadingTool = TRUE])
  ELSE FunctionCallStarted(
         [io EXCEPT !.toolResult = NoResult, !.isLoadingTool = TRUE],
         parsedArgs.val,
         UsesNetwork(events[1].item.name, parsedArgs.val, webhookEndpoints))

\* The function-call effect, after the session effect has left io.
FunctionCallEffect(io) ==
  IF io.threw THEN Committed(TRUE, FALSE, FALSE, FALSE, Undef, io)
  ELSE IF ~DispatchDue THEN Committed(FALSE, FALSE, FALSE, FALSE, Undef, io)
  ELSE FunctionCallDispatched(io, JSONparse(ArgumentsText(events[1].item)))

\* React renders the pending state and runs the effects of the render: the
\* session effect and the function-call effect of ToolPanel, then the data
\* channel effect of App, then the microtasks they have queued (handlers
\* that settle without a request).
Commit ==
  /\ renderPending /\ ~unmounted
  /\ FunctionCallEffect(
       SessionEffect(IO(events, wire, toolResult, isLoadingTool, toolCallHistory, FALSE)))
  /\ UNCHANGED <<isSessionActive, dataChannel, peerConnection, envVars, windowEnv,
                 textTimers, isActivating, envChanges, webhookEndpoints, delivered>>
  /\ UNCHANGED <<probe, manager, startSessionCalls, clipboard>>


(***************************************************************************)
(* Session control.                                                        *)
(***************************************************************************)
\* A start without the check of isActivating.
handleStartSessionUnchecked(max) ==
  /\ ~unmounted /\ ~isSessionActive
  /\ Len(readyState) < max
  /\ isActivating' = TRUE
  /\ startSessionCalls' = startSessionCalls + 1
  /\ readyState' = Append(readyState, "connecting")
  /\ dataChannel' = Len(readyState) + 1
  /\ renderPending' = TRUE
  /\ UNCHANGED <<isSessionActive, events, peerConnection, toolsAdded, activeToolCall,
                 toolResult, isLoadingTool, lastSentEnvHash, memoEnvVars, memoTools,
                 envVars, windowEnv, closeEvent, attached, unmounted, pendingHandlers,
                 textTimers, envChanges, webhookEndpoints, toolCallHistory, wire,
                 executed, delivered>>
  /\ UNCHANGED <<probe, manager, clipboard>>

\* handleStartSession and startSession up to setDataChannel(dc); at most
\* max sessions are started.
handleStartSession(max) ==
  /\ ~unmounted /\ ~isSessionActive /\ ~isActivating
  /\ Len(readyState) < max
  /\ isActivating' = TRUE
  /\ startSessionCalls' = startSessionCalls + 1
  /\ readyState' = Append(readyState, "connecting")
  /\ dataChannel' = Len(readyState) + 1
  /\ renderPending' = TRUE
  /\ UNCHANGED <<isSessionActive, events, peerConnection, toolsAdded, activeToolCall,
                 toolResult, isLoadingTool, lastSentEnvHash, memoEnvVars, memoTools,
                 envVars, windowEnv, closeEvent, attached, unmounted, pendingHandlers,
                 textTimers, envChanges, webhookEndpoints, toolCallHistory, wire,
                 executed, delivered>>
  /\ UNCHANGED <<probe, manager, clipboard>>

StartSession == handleStartSession(MaxSessions)

\* The rest of startSession: the SDP exchange, then peerConnection.current = pc.
StartSessionDone ==
  /\ ~unmounted /\ dataChannel # 0 /\ ~peerConnection
  /\ readyState[dataChannel] = "connecting"
  /\ peerConnection' = TRUE
  /\ UNCHANGED <<isSessionActive, events, dataChannel, toolsAdded, activeToolCall,
                 toolResult, isLoadingTool, lastSentEnvHash, memoEnvVars, memoTools,
                 envVars, windowEnv, readyState, closeEvent, attached, renderPending,
                 unmounted, pendingHandlers, textTimers, isActivating, envChanges,
                 webhookEndpoints, toolCallHistory, wire, executed, delivered>>
  /\ UNCHANGED <<probe, manager, startSessionCalls, clipboard>>

\* dataChannel.onopen
ChannelOpen ==
  /\ ~unmounted /\ attached # 0 /\ peerConnection
  /\ readyState[attached] = "connecting"
  /\ readyState' = [readyState EXCEPT ![attached] = "open"]
  /\ isSessionActive' = TRUE
  /\ events' = <<>>
  /\ isActivating' = FALSE
  /\ renderPending' = TRUE
  /\ UNCHANGED <<dataChannel, peerConnection, toolsAdded, activeToolCall, toolResult,
                 isLoadingTool, lastSentEnvHash, memoEnvVars, memoTools, envVars,
                 windowEnv, closeEvent, attached, unmounted, pendingHandlers,
                 textTimers, envChanges, webhookEndpoints, toolCallHistory, wire,
                 executed, delivered>>
  /\ UNCHANGED <<probe, manager, startSessionCalls, clipboard>>

\* peerConnection.current.getSenders() of stopSession throws a TypeError
\* when peerConnection.current is null.
stopSessionThrows == ~peerConnection

\* stopSession() of a render in which dataChannel was ch.  Without a peer
\* connection peerConnection.current.getSenders() throws after the channel
\* has been closed, and nothing else is done.  A channel that is closed
\* here fires its close event later; the close event that made this call
\* finds the channel closed and is thereby consumed.
stopSession(ch) ==
  /\ readyState' = [c \in DOMAIN readyState |->
                      IF c = ch THEN "closed" ELSE readyState[c]]
  /\ closeEvent' = IF ch # 0 /\ readyState[ch] # "closed" THEN closeEvent \cup {ch}
                   ELSE closeEvent \ {ch}
  /\ IF ~stopSessionThrows
     THEN /\ isSessionActive' = FALSE
          /\ dataChannel' = 0
          /\ peerConnection' = FALSE
          /\ events' = <<>>
          /\ renderPending' = TRUE
     ELSE UNCHANGED <<isSessionActive, dataChannel, peerConnection, events, renderPending>>

\* The user presses disconnect.
StopSession ==
  /\ ~unmounted /\ isSessionActive
  /\ stopSession(attached)
  /\ UNCHANGED <<toolsAdded, activeToolCall, toolResult, isLoadingTool, lastSentEnvHash,
                 memoEnvVars, memoTools, envVars, windowEnv, attached, unmounted,
                 pendingHandlers, textTimers, isActivating, envChanges, webhookEndpoints,
                 toolCallHistory, wire, executed, delivered>>
  /\ UNCHANGED <<probe, manager, startSessionCalls, clipboard>>

\* The far end closes the data channel.
RemoteClose ==
  /\ \E ch \in DOMAIN readyState :
       /\ readyState[ch] = "open"
       /\ readyState' = [readyState EXCEPT ![ch] = "closed"]
       /\ closeEvent' = closeEvent \cup {ch}
  /\ UNCHANGED <<isSessionActive, events, dataChannel, peerConnection, toolsAdded,
                 activeToolCall, toolResult, isLoadingTool, lastSentEnvHash, memoEnvVars,
                 memoTools, envVars, windowEnv, attached, renderPending, unmounted,
                 pendingHandlers, textTimers, isActivating, envChanges, webhookEndpoints,
                 toolCallHistory, wire, executed, delivered>>
  /\ UNCHANGED <<probe, manager, startSessionCalls, clipboard>>

\* dataChannel.onclose of channel ch: stopSession of the render that
\* attached the listeners.
ChannelCloseEvent ==
  /\ \E ch \in closeEvent :
       IF unmounted
       THEN /\ closeEvent' = closeEvent \ {ch}
            /\ UNCHANGED <<readyState, isSessionActive, dataChannel, peerConnection,
                           events, renderPending>>
       ELSE stopSession(ch)
  /\ UNCHANGED <<toolsAdded, activeToolCall, toolResult, isLoadingTool, lastSentEnvHash,
                 memoEnvVars, memoTools, envVars, windowEnv, attached, unmounted,
                 pendingHandlers, textTimers, isActivating, envChanges, webhookEndpoints,
                 toolCallHistory, wire, executed, delivered>>
  /\ UNCHANGED <<probe, manager, startSessionCalls, clipboard>>


(***************************************************************************)
(* Events, handlers, text messages, capability snapshots.                  *)
(***************************************************************************)
\* dataChannel.onmessage: a server event goes to the front of the log.
\* The event is one of alphabet, and at most max events are delivered.
onmessage(alphabet, max) ==
  /\ attached # 0 /\ readyState[attached] = "open" /\ ~unmounted
  /\ Len(delivered) < max
  /\ \E e \in alphabet :
       /\ events' = <<e>> \o events
       /\ delivered' = Append(delivered, e)
  /\ renderPending' = TRUE
  /\ UNCHANGED <<isSessionActive, dataChannel, peerConnection, toolsAdded, activeToolCall,
                 toolResult, isLoadingTool, lastSentEnvHash, memoEnvVars, memoTools,
                 envVars, windowEnv, readyState, closeEvent, attached, unmounted,
                 pendingHandlers, textTimers, isActivating, envChanges, webhookEndpoints,
                 toolCallHistory, wire, executed>>
  /\ UNCHANGED <<probe, manager, startSessionCalls, clipboard>>

Deliver == onmessage(ServerEvents, MaxDeliveries)

DeliverCall == onmessage(CallEvents, MaxCalls)

DeliverText == onmessage(TextEvents, MaxDeliveries)

\* The i-th element of a sequence removed.
RemoveAt(seq, i) == SubSeq(seq, 1, i - 1) \o SubSeq(seq, i + 1, Len(seq))

\* The promise chain of pending handler i has run and left io.  After the
\* tree is unmounted the state setters do nothing; the history in
\* localStorage is still written.
Settled(i, io) ==
  /\ pendingHandlers' = RemoveAt(pendingHandlers, i)
  /\ toolCallHistory' = io.history
  /\ wire' = io.wire
  /\ IF unmounted
     THEN UNCHANGED <<events, toolResult, isLoadingTool, renderPending>>
     ELSE /\ events' = io.events
          /\ toolResult' = io.toolResult
          /\ isLoadingTool' = io.isLoadingTool
          /\ renderPending' = (renderPending \/ io.events # events)

\* The fetch of pending handler i settles with resp and its promise chain
\* runs.
SettleWith(i, resp) ==
  /\ Settled(i, HandlerSettled(
                  IO(events, wire, toolResult, isLoadingTool, toolCallHistory, FALSE),
                  pendingHandlers[i].channel, pendingHandlers[i].toolCall,
                  execute(pendingHandlers[i].toolCall.name, pendingHandlers[i].args,
                          pendingHandlers[i].stored, webhookEndpoints, resp)))
  /\ UNCHANGED <<isSessionActive, dataChannel, peerConnection, toolsAdded, activeToolCall,
                 lastSentEnvHash, memoEnvVars, memoTools, envVars, windowEnv, readyState,
                 closeEvent, attached, unmounted, textTimers, isActivating, envChanges,
                 webhookEndpoints, executed, delivered>>
  /\ UNCHANGED <<probe, manager, startSessionCalls, clipboard>>

\* The request of a pending handler is answered and its promise chain runs.
Settle == \E i \in 1..Len(pendingHandlers), resp \in Responses : SettleWith(i, resp)

UserMessage == Event("client", "conversation.item.create",
                     Item("message", "", "", Undef, Undef), <<>>)

\* The number of user messages sent so far.
TextMessagesSent == Cardinality({i \in 1..Len(wire) : wire[i] = UserMessage})

\* sendTextMessage(message): the message is sent and a timer is set for
\* the response.create that follows it.
SendTextMessage ==
  /\ ~unmounted /\ isSessionActive /\ attached # 0
  /\ TextMessagesSent < MaxTextMessages
  /\ LET io == sendClientEvent(
                 IO(events, wire, toolResult, isLoadingTool, toolCallHistory, FALSE),
                 attached, UserMessage)
     IN  /\ ~io.threw
         /\ events' = io.events
         /\ wire' = io.wire
         /\ textTimers' = Append(textTimers, attached)
         /\ renderPending' = TRUE
  /\ UNCHANGED <<isSessionActive, dataChannel, peerConnection, toolsAdded, activeToolCall,
                 toolResult, isLoadingTool, lastSentEnvHash, memoEnvVars, memoTools,
                 envVars, windowEnv, readyState, closeEvent, attached, unmounted,
                 pendingHandlers, isActivating, envChanges, webhookEndpoints,
                 toolCallHistory, executed, delivered>>
  /\ UNCHANGED <<probe, manager, startSessionCalls, clipboard>>

\* The setTimeout callback of sendTextMessage.
TextTimer ==
  /\ textTimers # <<>>
  /\ LET io == sendClientEvent(
                 IO(events, wire, toolResult, isLoadingTool, toolCallHistory, FALSE),
                 textTimers[1], ResponseCreate)
     IN  /\ wire' = io.wire
         /\ IF unmounted \/ io.threw
            THEN UNCHANGED <<events, renderPending>>
            ELSE events' = io.events /\ renderPending' = TRUE
  /\ textTimers' = Tail(textTimers)
  /\ UNCHANGED <<isSessionActive, dataChannel, peerConnection, toolsAdded, activeToolCall,
                 toolResult, isLoadingTool, lastSentEnvHash, memoEnvVars, memoTools,
                 envVars, windowEnv, readyState, closeEvent, attached, unmounted,
                 pendingHandlers, isActivating, envChanges, webhookEndpoints,
                 toolCallHistory, executed, delivered>>
  /\ UNCHANGED <<probe, manager, startSessionCalls, clipboard>>

\* The capability snapshot provider reports a change: window.__ENV__ and
\* the envVars prop are replaced wholesale.
EnvVarsChange ==
  /\ ~unmounted /\ envChanges < MaxEnvChanges
  /\ \E snapshot \in EnvSnapshots \ {envVars} :
       /\ envVars' = snapshot
       /\ windowEnv' = snapshot
  /\ envChanges' = envChanges + 1
  /\ renderPending' = TRUE
  /\ UNCHANGED <<isSessionActive, events, dataChannel, peerConnection, toolsAdded,
                 activeToolCall, toolResult, isLoadingTool, lastSentEnvHash, memoEnvVars,
                 memoTools, readyState, closeEvent, attached, unmounted, pendingHandlers,
                 textTimers, isActivating, webhookEndpoints, toolCallHistory, wire,
                 executed, delivered>>
  /\ UNCHANGED <<probe, manager, startSessionCalls, clipboard>>

\* An App state update that leaves the modelled state alone (isAISpeaking):
\* App renders again, and the effects run on the same event log.
Rerender ==
  /\ ~unmounted /\ ~renderPending
  /\ renderPending' = TRUE
  /\ UNCHANGED <<isSessionActive, events, dataChannel, peerConnection, toolsAdded,
                 activeToolCall, toolResult, isLoadingTool, lastSentEnvHash, memoEnvVars,
                 memoTools, envVars, windowEnv, readyState, closeEvent, attached,
                 unmounted, pendingHandlers, textTimers, isActivating, envChanges,
                 webhookEndpoints, toolCallHistory, wire, executed, delivered>>
  /\ UNCHANGED <<probe, manager, startSessionCalls, clipboard>>

(***************************************************************************)
(* The tool registry on its own: a handler is run once on arguments the    *)
(* dispatcher could pass it, and the gate is read once.                    *)
(***************************************************************************)
\* The argument texts of a function call that parse.
ArgumentTexts ==
  { ArgsQuery, ArgsNoEndpoint,
    Text(<<P("{"), P("}")>>),
    Text(<<W("null")>>),
    JSONstringify(Obj(<< <<"query", Str("   ")>> >>)),
    JSONstringify(Obj(<< <<"query", Num("5")>> >>)),
    JSONstringify(Obj(<< <<"endpoint_key", Str("N8N_Brave_Search")>>,
                         <<"query", Str("cats")>> >>)),
    JSONstringify(Obj(<< <<"endpoint_key", Str("n8n-brave-search")>> >>)),
    JSONstringify(Obj(<< <<"endpoint_key", Str("bar-baz")>>,
                         <<"payload", Obj(<< <<"a", Num("1")>> >>)>> >>)),
    JSONstringify(Obj(<< <<"endpoint_key", Num("5")>> >>)) }

\* JSON.parse(functionCall.arguments || '{}') of the texts above
ToolArguments == { JSONparse(t).val : t \in ArgumentTexts }

\* The localStorage item a handler may find: none, what WebhookManager
\* wrote, the text null, and an item that is not JSON.
StoredItems == { Undef, StoredEndpoints, Text(<<W("null")>>), CorruptEndpoints }

\* The HTTP responses a handler may receive.
ToolResponses ==
  Responses \cup
  { Response("http", FALSE, "500", "text/plain", Str("Internal Server Error")),
    Response("http", TRUE, "200", "text/plain", Str("pong")),
    Response("http", TRUE, "200", "text/plain", Str("")),
    Response("http", TRUE, "200", "application/json", Text(<<P("{"), S("results")>>)),
    Response("http", TRUE, "200", "application/json", Text(<<W("null")>>)) }

\* window.__ENV__ as the gate may find it.
WindowEnvs ==
  EnvSnapshots \cup
  { Undef, Obj(<<>>),
    Obj(<< <<"SEARXNG_URL", Str("true")>> >>),
    Obj(<< <<"OTHER_KEY", Bool("true")>> >>) }

Windows == {"none", "throws", "ok"}

InitTools ==
  /\ InitWith(StoredEndpoints)
  /\ \E tool \in {ToolNames[i] : i \in 1..Len(ToolNames)}, args \in ToolArguments,
        stored \in StoredItems, win \in Windows, env \in WindowEnvs :
       probe = [NoProbe EXCEPT !.phase = "input", !.tool = tool, !.args = args,
                               !.stored = stored, !.win = win, !.env = env]

appVars == <<isSessionActive, events, dataChannel, peerConnection, toolsAdded,
             activeToolCall, toolResult, isLoadingTool, lastSentEnvHash,
             memoEnvVars, memoTools, envVars, windowEnv, readyState, closeEvent,
             attached, renderPending, unmounted, pendingHandlers, textTimers,
             isActivating, envChanges, webhookEndpoints, toolCallHistory, wire,
             executed, delivered, manager, startSessionCalls, clipboard>>

\* tools[probe.tool].execute(probe.args) runs and settles.
Execute ==
  /\ probe.phase = "input"
  /\ \E item1 \in StoredItems, resp \in ToolResponses :
       probe' = [probe EXCEPT !.phase = "executed",
                              !.outcome = execute(probe.tool, probe.args,
                                                  probe.stored, item1, resp)]
  /\ UNCHANGED appVars

\* getAllToolDefinitions() is called.
ListDefinitions ==
  /\ probe.phase = "input"
  /\ probe' = [probe EXCEPT !.phase = "listed",
                            !.definitions = getAllToolDefinitions(probe.win, probe.env)]
  /\ UNCHANGED appVars

(***************************************************************************)
(* webhook_call on its own: the handler is run once on a store of          *)
(* endpoints, on a page served from some host, and the endpoint answers.   *)
(***************************************************************************)
\* The stored endpoints: every method, every authentication, a legacy URL,
\* SearXNG endpoints and an endpoint of the application itself.
EndpointStore ==
  JSONstringify(Obj(<<
    <<"n8n-brave-search",
      Obj(<< <<"url", Str("https://n8n.example/hook")>>, <<"method", Str("POST")>>,
             <<"authMethod", Str("none")>>, <<"description", Str("web search hook")>> >>)>>,
    <<"bar-baz", Str("https://legacy.example/x")>>,
    <<"weather-api",
      Obj(<< <<"url", Str("https://api.example.com/w")>>, <<"method", Str("GET")>>,
             <<"authMethod", Str("apiKey")>>, <<"apiKey", Str("secret")>>,
             <<"apiKeyHeaderName", Str("key")>>, <<"description", Str("weather")>> >>)>>,
    <<"Web-Search",
      Obj(<< <<"url", Str("https://find.example/q")>>, <<"method", Str("ANY")>>,
             <<"authMethod", Str("bearerToken")>>, <<"bearerToken", Str("tok")>>,
             <<"description", Str("finder")>> >>)>>,
    <<"my-searx",
      Obj(<< <<"url", Str("http://searx.local/search")>>, <<"method", Str("GET")>>,
             <<"authMethod", Str("none")>> >>)>>,
    <<"searx-any",
      Obj(<< <<"url", Str("http://localhost:8080/search")>>, <<"method", Str("ANY")>>,
             <<"authMethod", Str("apiKey")>>, <<"apiKey", Str("k2")>> >>)>>,
    <<"local",
      Obj(<< <<"url", Str("/api/local")>>, <<"method", Str("POST")>>,
             <<"authMethod", Str("basicAuth")>>, <<"username", Str("u")>>,
             <<"password", Str("p")>> >>)>> >>))

\* A store that holds one legacy endpoint.
LegacyStore == JSONstringify(Obj(<< <<"bar-baz", Str("https://legacy.example/x")>> >>))

\* An endpoint stored under key, told from the others by its description.
NamedEndpoint(key, description) ==
  <<key, Obj(<< <<"url", Str("https://legacy.example/x")>>,
                <<"description", Str(description)>> >>)>>

\* A store whose keys differ in letter case and in '_' for '-' only.
AlikeStore ==
  JSONstringify(Obj(<<
    NamedEndpoint("weather-api", "lower weather"),
    NamedEndpoint("Weather_API", "mixed weather"),
    NamedEndpoint("WEATHER-API", "upper weather"),
    NamedEndpoint("Web_Search", "mixed finder"),
    NamedEndpoint("web-search", "lower finder"),
    NamedEndpoint("N8N_Brave_Search", "mixed brave"),
    NamedEndpoint("N8N-BRAVE-SEARCH", "upper brave") >>))

\* An endpoint with the authentication fields given.
AuthEndpoint(key, fields) ==
  <<key, Obj(<< <<"url", Str("https://legacy.example/x")>> >> \o fields)>>

\* A store of endpoints whose credentials are missing, or stored for
\* another authentication method than the one selected.
CredentialStore ==
  JSONstringify(Obj(<<
    AuthEndpoint("weather-api",
      << <<"authMethod", Str("apiKey")>>, <<"bearerToken", Str("tok")>>,
         <<"username", Str("u")>>, <<"password", Str("p")>> >>),
    AuthEndpoint("web-search",
      << <<"authMethod", Str("customHeader")>>, <<"customHeaderName", Str("X-Sig")>>,
         <<"customHeaderValue", Str("v")>>, <<"apiKey", Str("secret")>>,
         <<"bearerToken", Str("tok")>> >>),
    AuthEndpoint("n8n-brave-search",
      << <<"authMethod", Str("basicAuth")>>, <<"username", Str("u")>>,
         <<"apiKey", Str("secret")>>, <<"apiKeyHeaderName", Str("key")>> >>),
    AuthEndpoint("my-searx",
      << <<"authMethod", Str("customHeader")>>, <<"customHeaderName", Str("X-Sig")>>,
         <<"bearerToken", Str("tok")>> >>),
    AuthEndpoint("searx-any",
      << <<"authMethod", Str("none")>>, <<"apiKey", Str("secret")>>,
         <<"username", Str("u")>>, <<"password", Str("p")>>,
         <<"bearerToken", Str("tok")>>, <<"customHeaderName", Str("X-Sig")>>,
         <<"customHeaderValue", Str("v")>> >>),
    AuthEndpoint("local",
      << <<"authMethod", Str("bearerToken")>>, <<"apiKey", Str("secret")>>,
         <<"username", Str("u")>> >>),
    AuthEndpoint("bar-baz",
      << <<"apiKey", Str("secret")>>, <<"bearerToken", Str("tok")>> >>),
    AuthEndpoint("foo",
      << <<"method", Str("POST")>>, <<"description", Str("web search hook")>>,
         <<"authMethod", Str("basicAuth")>>, <<"password", Str("p")>>,
         <<"bearerToken", Str("tok")>> >>) >>))

EndpointStores == {EndpointStore, LegacyStore, AlikeStore, CredentialStore}

\* window.location.host of the page.
Hosts == {"localhost:3000", "example.com"}

\* The members of args that are present.
Present(fields) == Obj(SelectSeq(fields, LAMBDA f : f[2].k # "undef"))

\* The arguments of a webhook_call as the dispatcher has parsed them.
WebhookArguments ==
  { Present(<< <<"endpoint_key", Str(key)>>, <<"method", method>>,
               <<"payload", payload>>, <<"query", query>> >>) :
      key \in {"weather-api", "Weather_API", "web_search", "n8n_brave_search",
               "my-searx", "searx-any", "local", "bar-baz", "foo"},
      method \in {Undef, Str("GET"), Str("POST")},
      payload \in {Undef, Obj(<< <<"q", Str("Boston")>>, <<"n", Num("5")>> >>),
                   Obj(<< <<"query", Str("x")>> >>)},
      query \in {Undef, Str(""), Str("x")} }

\* The answers of an endpoint.
EndpointResponses ==
  { Response("http", TRUE, "200", "application/json",
             JSONstringify(Obj(<< <<"results", Arr(<<Str("r1")>>)>> >>))),
    Response("http", TRUE, "200", "text/plain", Str("pong")),
    Response("http", FALSE, "500", "text/plain", Str("Internal Server Error")),
    Response("http", FALSE, "404", "application/json",
             JSONstringify(Obj(<< <<"detail", Str("no such hook")>> >>))),
    Response("http", TRUE, "200", "application/json", Str("<html>oops</html>")),
    NetworkFailure }

InitWebhook ==
  /\ InitWith(EndpointStore)
  /\ \E args \in WebhookArguments, stored \in EndpointStores, host \in Hosts :
       probe = [NoProbe EXCEPT !.phase = "input", !.tool = "webhook_call",
                               !.args = args, !.stored = stored, !.host = host]

\* The handler has made the request req, the endpoint has answered resp
\* (through the proxy when the request went there), and the handler has
\* settled.
Invoked(plan, req, resp) ==
  [probe EXCEPT !.phase = "called", !.plan = plan, !.request = req,
                !.response = resp,
                !.forwarded = IF req = NoRequest THEN NoRequest ELSE EndpointRequest(req),
                !.outcome = WebhookRun(plan, probe.stored, probe.stored,
                                       IF req.target = "/api/proxy"
                                       THEN ProxyResponse(resp) ELSE resp)]

\* The request of the plan, when it ends in one.
PlannedRequest(plan, host) ==
  IF WebhookRequests(plan)
  THEN WebhookRequest(plan.call.method, plan.call.config, plan.call.payload, host)
  ELSE NoRequest

InvokePlan(plan, resp) == Invoked(plan, PlannedRequest(plan, probe.host), resp)

\* tools.webhook_call.execute(probe.args) runs and settles.
Invoke ==
  /\ probe.phase = "input"
  /\ \E resp \in EndpointResponses :
       probe' = InvokePlan(WebhookPlan(probe.args, probe.stored), resp)
  /\ UNCHANGED appVars

(***************************************************************************)
(* webhook_call under the dispatcher, on a page served from probe.host.    *)
(***************************************************************************)
ArgsWeather ==
  JSONstringify(Obj(<< <<"endpoint_key", Str("Weather_API")>>,
                       <<"payload", Obj(<< <<"q", Str("Boston")>> >>)>> >>))

ArgsBrave ==
  JSONstringify(Obj(<< <<"endpoint_key", Str("n8n_brave_search")>>,
                       <<"query", Str("x")>> >>))

\* Calls of two stored endpoints: a GET with an API key and a POST.
HookEvents ==
  { Event("server", "response.done", FunctionCall("call_1", "webhook_call", ArgsWeather), <<>>),
    Event("server", "response.done", FunctionCall("call_2", "webhook_call", ArgsBrave), <<>>) }

InitHooks ==
  /\ InitWith(EndpointStore)
  /\ \E host \in Hosts : probe = [NoProbe EXCEPT !.host = host]

DeliverHook == onmessage(HookEvents, MaxDeliveries)

\* What fetch gives the handler h for the answer resp of its endpoint:
\* the answer itself, or the answer of the proxy when the request went
\* there.
Received(h, resp) ==
  IF PlannedRequest(WebhookPlan(h.args, h.stored), probe.host).target = "/api/proxy"
  THEN ProxyResponse(resp) ELSE resp

\* The endpoint of a pending webhook_call answers, or the request fails.
SettleHook ==
  \E i \in 1..Len(pendingHandlers), resp \in EndpointResponses :
    SettleWith(i, Received(pendingHandlers[i], resp))

(***************************************************************************)
(* The handlers of WebhookManager.  They leave the rest of the page alone. *)
(***************************************************************************)
pageVars == <<isSessionActive, events, dataChannel, peerConnection, toolsAdded,
              activeToolCall, toolResult, isLoadingTool, lastSentEnvHash,
              memoEnvVars, memoTools, envVars, windowEnv, readyState, closeEvent,
              attached, renderPending, unmounted, pendingHandlers, textTimers,
              isActivating, envChanges, toolCallHistory, wire, executed, delivered,
              probe, startSessionCalls, clipboard>>

\* What the user types into the form.
TypedValues ==
  { <<"key", "My Hook">>, <<"key", " hook-a ">>, <<"key", "my_hook">>,
    <<"url", "https://c.example/h">>, <<"apiKey", "fresh">> }

\* The manager when the user does one more thing.
ByUser == [manager EXCEPT !.operations = @ + 1]

\* handleInputChange(e); the key field is disabled while an endpoint is
\* edited.
handleInputChange ==
  /\ manager.operations < MaxOperations
  /\ \E typed \in TypedValues :
       /\ typed[1] = "key" => manager.editingKey = Null
       /\ manager' = [ByUser EXCEPT
                        !.formData = Obj(PutMember(@.items, typed[1], Str(typed[2])))]
  /\ UNCHANGED <<pageVars, webhookEndpoints>>

\* setWebhookEndpoints(updated) and localStorage.setItem of the same.
Saved(m, updated) ==
  /\ manager' = [m EXCEPT !.endpoints = updated]
  /\ webhookEndpoints' = JSONstringify(updated)

\* handleSubmit(e) on a form that passes the validation:
\* addOrUpdateEndpoint().
handleSubmit ==
  /\ manager.operations < MaxOperations
  /\ FormErrors(manager.formData) = {}
  /\ IF SaveThrows(manager.formData,
                   IF Truthy(manager.editingKey)
                   THEN Get(manager.endpoints, manager.editingKey.s) ELSE Undef)
     THEN manager' = ByUser /\ UNCHANGED webhookEndpoints
     ELSE Saved([ByUser EXCEPT !.formData = EmptyForm, !.editingKey = Null],
                UpdatedEndpoints(manager.endpoints, manager.formData, manager.editingKey))
  /\ UNCHANGED pageVars

\* startEdit(key)
startEdit ==
  /\ manager.operations < MaxOperations
  /\ \E i \in 1..Len(manager.endpoints.items) :
       manager' =
         [ByUser EXCEPT
            !.editingKey = Str(manager.endpoints.items[i][1]),
            !.formData = IF EditThrows(manager.endpoints.items[i][2]) THEN @
                         ELSE EditForm(manager.endpoints.items[i][1],
                                       manager.endpoints.items[i][2])]
  /\ UNCHANGED <<pageVars, webhookEndpoints>>

\* The Cancel button of the form.
cancelEdit ==
  /\ manager.operations < MaxOperations
  /\ manager.editingKey # Null
  /\ manager' = [ByUser EXCEPT !.editingKey = Null, !.formData = EmptyForm]
  /\ UNCHANGED <<pageVars, webhookEndpoints>>

\* removeEndpoint(key)
removeEndpoint ==
  /\ manager.operations < MaxOperations
  /\ \E i \in 1..Len(manager.endpoints.items) :
       Saved(ByUser, DeleteMember(manager.endpoints, manager.endpoints.items[i][1]))
  /\ UNCHANGED pageVars

\* A file to import: its text is JSON for data, or data encrypted.
File(json, data) == [json |-> json, data |-> data]

ImportedHook(url, method) == Obj(<< <<"url", Str(url)>>, <<"method", Str(method)>> >>)

\* The files of the model: endpoints under new and stored keys, a key that
\* is not normalized, an entry without a method next to a whole one, data
\* that is no object, an array, and an encrypted file.
ImportFiles ==
  { File(TRUE, Obj(<< <<"hook-c", ImportedHook("https://c.example/h", "GET")>>,
                      <<"hook-b", ImportedHook("https://b.example/h", "ANY")>> >>)),
    File(TRUE, Obj(<< <<"Bad_Key", ImportedHook("https://c.example/h", "GET")>> >>)),
    File(TRUE, Obj(<< <<"hook-c", ImportedHook("https://c.example/h", "GET")>>,
                      <<"hook-d", Obj(<< <<"url", Str("https://b.example/h")>> >>)>> >>)),
    File(TRUE, Str("hook-c")),
    File(TRUE, Arr(<<ImportedHook("https://c.example/h", "GET")>>)),
    File(FALSE, Obj(<< <<"hook-c", ImportedHook("https://c.example/h", "GET")>> >>)) }

\* A FileReader at work: the file, whether its text is being decrypted
\* and with the right password, and the endpoints of the render whose
\* importWebhooks its onload calls.
Read(file, decrypting, password, endpoints) ==
  [file |-> file, decrypting |-> decrypting, password |-> password,
   endpoints |-> endpoints]

\* handleFileUpload(event): the file is read.
handleFileUpload ==
  /\ manager.operations < MaxOperations
  /\ Len(manager.reads) < MaxReads
  /\ \E file \in ImportFiles :
       manager' = [ByUser EXCEPT
                     !.reads = Append(@, Read(file, FALSE, FALSE, manager.endpoints))]
  /\ UNCHANGED <<pageVars, webhookEndpoints>>

\* processImport(): the file that waits for a password is read again,
\* with the password the user has typed.
processImport ==
  /\ manager.operations < MaxOperations
  /\ manager.decrypt # Undef
  /\ Len(manager.reads) < MaxReads
  /\ \E password \in BOOLEAN :
       manager' = [ByUser EXCEPT
                     !.reads = Append(@, Read(manager.decrypt, TRUE, password,
                                              manager.endpoints))]
  /\ UNCHANGED <<pageVars, webhookEndpoints>>

\* importWebhooks(data) called by the onload of the read r, in the state m
\* the onload has left so far.
Imported(m, r) ==
  IF ImportAccepted(r.file.data)
  THEN Saved(m, importWebhooks(r.endpoints, r.file.data))
  ELSE manager' = m /\ UNCHANGED webhookEndpoints

\* reader.onload of the oldest read: the text is parsed and imported; a
\* text that is not JSON asks for a password; a text decrypted with the
\* wrong password changes nothing.
FileLoaded ==
  /\ manager.reads # <<>>
  /\ LET r == Head(manager.reads)
         m == [manager EXCEPT !.reads = Tail(@)]
     IN  IF ~r.decrypting
         THEN IF r.file.json THEN Imported(m, r)
              ELSE manager' = [m EXCEPT !.decrypt = r.file] /\ UNCHANGED webhookEndpoints
         ELSE IF r.password THEN Imported([m EXCEPT !.decrypt = Undef], r)
              ELSE manager' = m /\ UNCHANGED webhookEndpoints
  /\ UNCHANGED pageVars

\* The endpoints the manager starts from: two stored by the form, one of
\* them with an API key and a custom header that is a credential.
ManagerStore ==
  JSONstringify(Obj(<<
    <<"hook-a",
      Obj(<< <<"url", Str("https://a.example/h")>>, <<"method", Str("ANY")>>,
             <<"authMethod", Str("apiKey")>>, <<"apiKeyHeaderName", Str("X-API-Key")>>,
             <<"apiKey", Str("secret")>>, <<"username", Str("")>>,
             <<"password", Str("")>>, <<"bearerToken", Str("")>>,
             <<"customHeaderName", Str("X-Auth-Token")>>,
             <<"customHeaderValue", Str("v")>>, <<"description", Str("")>> >>)>>,
    <<"hook-b",
      Obj(<< <<"url", Str("https://b.example/h")>>, <<"method", Str("ANY")>>,
             <<"authMethod", Str("basicAuth")>>, <<"apiKeyHeaderName", Str("X-API-Key")>>,
             <<"apiKey", Str("")>>, <<"username", Str("u")>>,
             <<"password", Str("p")>>, <<"bearerToken", Str("")>>,
             <<"customHeaderName", Str("X-Trace")>>,
             <<"customHeaderValue", Str("t")>>, <<"description", Str("")>> >>)>> >>))

InitManager ==
  /\ \E stored \in {Undef, ManagerStore} : InitPage(stored, <<>>)
  /\ probe = NoProbe

NextManager ==
  \/ handleInputChange
  \/ handleSubmit
  \/ startEdit
  \/ cancelEdit
  \/ removeEndpoint
  \/ handleFileUpload
  \/ processImport
  \/ FileLoaded

SpecManager == InitManager /\ [][NextManager]_vars

\* Everything but the ClipboardManager.
besideClipboard == <<isSessionActive, events, dataChannel, peerConnection, toolsAdded,
                     activeToolCall, toolResult, isLoadingTool, lastSentEnvHash,
                     memoEnvVars, memoTools, envVars, windowEnv, readyState, closeEvent,
                     attached, renderPending, unmounted, pendingHandlers, textTimers,
                     isActivating, envChanges, webhookEndpoints, toolCallHistory, wire,
                     executed, delivered, probe, manager, startSessionCalls>>

\* The effects of the first render of ClipboardManager.
ClipboardMount ==
  /\ ~clipboard.mounted
  /\ \E next \in {ClipboardMounted(clipboard)} : clipboard' = next
  /\ UNCHANGED besideClipboard

\* React renders the queued entries and runs the save effect, whose
\* dependency clipboardEntries is a new array.
ClipboardRender ==
  /\ clipboard.mounted /\ clipboard.queued.set
  /\ \E next \in {saveEffect([clipboard EXCEPT
                                 !.clipboardEntries = clipboard.queued.entries,
                                 !.queued = NoUpdate])} :
       clipboard' = next
  /\ UNCHANGED besideClipboard

\* The timeout of handleCustomEvent resets customEventRef.
ResetTimeout ==
  /\ clipboard.timeout
  /\ clipboard' = [clipboard EXCEPT !.customEventRef = FALSE, !.timeout = FALSE]
  /\ UNCHANGED besideClipboard

\* handleDelete(id) for an entry on display.
handleDelete ==
  /\ clipboard.mounted /\ clipboard.changes < MaxChanges
  /\ \E i \in 1..Len(clipboard.clipboardEntries.items) :
       clipboard' =
         [clipboard EXCEPT
            !.queued = Update(WithoutEntry(
                         LatestEntries(clipboard),
                         Get(clipboard.clipboardEntries.items[i][2], "id"))),
            !.changes = @ + 1]
  /\ UNCHANGED besideClipboard

\* handleClearAll(), confirmed by the user.
handleClearAll ==
  /\ clipboard.mounted /\ clipboard.changes < MaxChanges
  /\ clipboard' = [clipboard EXCEPT !.queued = Update(Arr(<<>>)), !.changes = @ + 1]
  /\ UNCHANGED besideClipboard

\* The clipboard tool has saved a new entry in front of the stored
\* history; ClipboardOutput will dispatch clipboard-updated.
ToolSaves ==
  /\ clipboard.changes < MaxChanges
  /\ clipboard' =
       [clipboard EXCEPT
          !.history = JSONstringify(
                        Arr(<<Entry(MaxChanges + clipboard.changes + 1)>>
                            \o [i \in 1..Len(StoredEntries(clipboard.history).items) |->
                                  StoredEntries(clipboard.history).items[i][2]])),
          !.eventDue = TRUE,
          !.changes = @ + 1]
  /\ UNCHANGED besideClipboard

\* The clipboard-updated event that ClipboardOutput dispatches from a
\* timeout.
ClipboardUpdated ==
  /\ clipboard.mounted /\ clipboard.eventDue
  /\ \E next \in {handleCustomEvent(clipboard)} :
       clipboard' = [next EXCEPT !.eventDue = FALSE]
  /\ UNCHANGED besideClipboard

\* The polling interval finds a difference and reloads.
Poll ==
  /\ clipboard.mounted /\ PollReloads(clipboard)
  /\ \E next \in {loadEntriesFromStorage(clipboard)} : clipboard' = next
  /\ UNCHANGED besideClipboard

\* The clipboard histories the page may find in localStorage.
ClipboardHistories ==
  {Undef, JSONstringify(Entries(<<>>)), JSONstringify(Entries(<<MaxChanges, 1>>))}

InitClipboard ==
  /\ \E clipboardHistory \in ClipboardHistories :
       InitApp(StoredEndpoints, <<>>, clipboardHistory)
  /\ probe = NoProbe

NextClipboard ==
  \/ ClipboardMount
  \/ ClipboardRender
  \/ ResetTimeout
  \/ handleDelete
  \/ handleClearAll
  \/ ToolSaves
  \/ ClipboardUpdated
  \/ Poll

SpecClipboard == InitClipboard /\ [][NextClipboard]_vars

\* Renders, timeouts, events and the polling interval are not put off
\* for ever: weak fairness of each, with the enabling conditions of all
\* but the timeout written out (the user and the clipboard tool need not
\* do anything).
SpecClipboardLive ==
  /\ SpecClipboard
  /\ WF_vars(ResetTimeout)
  /\ ([]<>clipboard.mounted \/ []<><<ClipboardMount>>_vars)
  /\ ([]<>(~(clipboard.mounted /\ clipboard.queued.set))
        \/ []<><<ClipboardRender>>_vars)
  /\ ([]<>(~(clipboard.mounted /\ clipboard.eventDue))
        \/ []<><<ClipboardUpdated>>_vars)
  /\ ([]<>(~(clipboard.mounted /\ PollReloads(clipboard))) \/ []<><<Poll>>_vars)

(***************************************************************************)
(* Specifications.  Each takes the whole of the components' actions and    *)
(* differs in the inputs it feeds them:                                    *)
(*   Spec       every kind of server event, a stored item that may be      *)
(*              corrupt                                                    *)
(*   SpecCalls  up to MaxCalls deliveries of two calls that wait for a     *)
(*              response                                                   *)
(*   SpecText   function calls next to the user's text messages, a stored   *)
(*              item that may be corrupt                                   *)
(*   SpecTools  the registry on its own                                    *)
(*   SpecWebhook  webhook_call on its own, with its requests               *)
(*   SpecHooks  calls of stored endpoints that answer with any status      *)
(*   SpecEnv    two sessions, session.created and capability snapshots    *)
(*   SpecGate   calls of web_search while the capability snapshot changes  *)
(*   SpecBatch  events that arrive together, and a function call that is   *)
(*              not the first output item                                  *)
(*   SpecHistory  calls on a tool-call history that earlier sessions have  *)
(*              filled                                                     *)
(*   SpecManager  the WebhookManager component on its own                  *)
(*   SpecStart  the start button, with attempts that fail before a        *)
(*              session becomes active                                     *)
(*   SpecClipboard  the ClipboardManager component on its own; with its     *)
(*              scheduling SpecClipboardLive                               *)
(***************************************************************************)
Next ==
  \/ Commit
  \/ StartSession
  \/ StartSessionDone
  \/ ChannelOpen
  \/ StopSession
  \/ RemoteClose
  \/ ChannelCloseEvent
  \/ Deliver
  \/ Settle
  \/ Rerender

Spec == Init /\ [][Next]_vars

NextCalls ==
  \/ Commit
  \/ StartSession
  \/ StartSessionDone
  \/ ChannelOpen
  \/ StopSession
  \/ RemoteClose
  \/ ChannelCloseEvent
  \/ DeliverCall
  \/ Settle
  \/ Rerender

SpecCalls == InitStored /\ [][NextCalls]_vars

\* The record of the n-th newest call of earlier sessions.
StoredRecord(n) ==
  [toolName |-> "display_color_palette", status |-> "success",
   arguments |-> Obj(<<>>), result |-> Num(ToString(n))]

\* The history that earlier sessions have left in localStorage, newest
\* first.
StoredHistory(n) == [k \in 1..n |-> StoredRecord(k)]

InitHistory ==
  /\ \E n \in (HistoryLimit - 2)..HistoryLimit :
       InitPage(StoredEndpoints, StoredHistory(n))
  /\ probe = NoProbe

SpecHistory == InitHistory /\ [][NextCalls]_vars

NextText ==
  \/ Commit
  \/ StartSession
  \/ StartSessionDone
  \/ ChannelOpen
  \/ StopSession
  \/ RemoteClose
  \/ ChannelCloseEvent
  \/ DeliverText
  \/ Settle
  \/ SendTextMessage
  \/ TextTimer
  \/ Rerender

SpecText == Init /\ [][NextText]_vars

NextTools ==
  \/ Execute
  \/ ListDefinitions

SpecTools == InitTools /\ [][NextTools]_vars

NextWebhook == Invoke

NextHooks ==
  \/ Commit
  \/ StartSession
  \/ StartSessionDone
  \/ ChannelOpen
  \/ StopSession
  \/ RemoteClose
  \/ ChannelCloseEvent
  \/ DeliverHook
  \/ SettleHook
  \/ Rerender

SpecHooks == InitHooks /\ [][NextHooks]_vars

\* A text item of the assistant.
MessageItem == Item("message", "", "", Undef, Undef)

\* A call that arrives alone, session.created, and a response whose
\* function call comes after a message.
BatchEvents ==
  { ResponseDone(<<FunctionCall("call_1", "web_search", ArgsQuery)>>),
    SessionCreated,
    ResponseDone(<<MessageItem, FunctionCall("call_2", "web_search", ArgsQuery)>>) }

DeliverBatch == onmessage(BatchEvents, MaxDeliveries)

NextBatch ==
  \/ Commit
  \/ StartSession
  \/ StartSessionDone
  \/ ChannelOpen
  \/ StopSession
  \/ RemoteClose
  \/ ChannelCloseEvent
  \/ DeliverBatch
  \/ Settle
  \/ Rerender

SpecBatch == InitStored /\ [][NextBatch]_vars

DeliverGated == onmessage(CallEvents, MaxDeliveries)

NextGate ==
  \/ Commit
  \/ StartSession
  \/ StartSessionDone
  \/ ChannelOpen
  \/ StopSession
  \/ RemoteClose
  \/ ChannelCloseEvent
  \/ DeliverGated
  \/ Settle
  \/ EnvVarsChange
  \/ Rerender

SpecGate == InitStored /\ [][NextGate]_vars

\* A session that may be started again after it has ended.
StartSessionAgain == handleStartSession(MaxEnvSessions)

DeliverCreated == onmessage({SessionCreated}, MaxDeliveries)

NextEnv ==
  \/ Commit
  \/ StartSessionAgain
  \/ StartSessionDone
  \/ ChannelOpen
  \/ StopSession
  \/ RemoteClose
  \/ ChannelCloseEvent
  \/ DeliverCreated
  \/ EnvVarsChange
  \/ Rerender

SpecEnv == InitStored /\ [][NextEnv]_vars

\* handleStartSession when startSession fails before it has made a data
\* channel: the token response is not usable, or the fetch or
\* getUserMedia rejects.  SessionStopped is left activating.
StartSessionFails ==
  /\ ~unmounted /\ ~isSessionActive /\ ~isActivating
  /\ startSessionCalls < MaxEnvSessions
  /\ isActivating' = TRUE
  /\ startSessionCalls' = startSessionCalls + 1
  /\ UNCHANGED <<isSessionActive, events, dataChannel, peerConnection, toolsAdded,
                 activeToolCall, toolResult, isLoadingTool, lastSentEnvHash, memoEnvVars,
                 memoTools, envVars, windowEnv, readyState, closeEvent, attached,
                 renderPending, unmounted, pendingHandlers, textTimers, envChanges,
                 webhookEndpoints, toolCallHistory, wire, executed, delivered>>
  /\ UNCHANGED <<probe, manager, clipboard>>

NextStart ==
  \/ Commit
  \/ StartSessionAgain
  \/ StartSessionFails
  \/ StartSessionDone
  \/ ChannelOpen
  \/ StopSession
  \/ RemoteClose
  \/ ChannelCloseEvent
  \/ DeliverCreated
  \/ Rerender

SpecStart == InitStored /\ [][NextStart]_vars

SpecWebhook == InitWebhook /\ [][NextWebhook]_vars


(***************************************************************************)
(* Properties of the dispatcher (SpecCalls, SpecText, Spec).               *)
(***************************************************************************)
\* The outbound message m is a function_call_output for call_id.
IsOutputFor(m, call_id) ==
  /\ m.type = "conversation.item.create"
  /\ m.item.type = "function_call_output"
  /\ m.item.call_id = call_id

\* The positions of the wire that hold a function_call_output for call_id.
OutputsFor(call_id) == {k \in 1..Len(wire) : IsOutputFor(wire[k], call_id)}

\* The number of handlers started for call_id.
Invocations(call_id) ==
  Cardinality({i \in 1..Len(executed) : executed[i].toolCall.call_id = call_id})

\* The session is up and nothing is left to run: no render, no handler, no
\* close event is pending.
Quiescent ==
  /\ isSessionActive /\ ~unmounted /\ ~renderPending
  /\ attached # 0 /\ attached = dataChannel /\ readyState[attached] = "open"
  /\ pendingHandlers = <<>> /\ closeEvent = {}

\* C1: once the live session has nothing left to run, every delivered
\* function call with a call_id not delivered before, a registered tool and
\* arguments that parse has exactly one function_call_output on the wire,
\* and a response.create right after it.
C1_RoundTrip ==
  Quiescent =>
    \A i \in 1..Len(delivered) :
      (/\ delivered[i].item.type = "function_call"
       /\ delivered[i].item.call_id # ""
       /\ IsRegistered(delivered[i].item.name)
       /\ JSONparse(ArgumentsText(delivered[i].item)).ok
       /\ \A j \in 1..(i - 1) : delivered[j].item.call_id # delivered[i].item.call_id)
      => /\ Cardinality(OutputsFor(delivered[i].item.call_id)) = 1
         /\ \A k \in OutputsFor(delivered[i].item.call_id) :
              k < Len(wire) /\ wire[k + 1] = ResponseCreate

\* C2: on the wire every function_call_output is followed at once by a
\* response.create without payload; no user message and no delayed
\* response.create of a user message comes between the two.
C2_OutputThenResponse ==
  \A k \in 1..Len(wire) :
    wire[k].item.type = "function_call_output" =>
      (k < Len(wire) /\ wire[k + 1] = ResponseCreate)

\* A handler has sent its result between a user message and the delayed
\* response.create of that message.
C2_Witness ==
  \E k \in 2..(Len(wire) - 2) :
    /\ wire[k - 1] = UserMessage
    /\ wire[k].item.type = "function_call_output"
    /\ wire[k + 1] = ResponseCreate
    /\ wire[k + 2] = ResponseCreate
    /\ textTimers = <<>>

\* C3 as stated: on the data channel of one session no call_id has its
\* handler started twice, and no call_id has two function_call_outputs on
\* the wire, whatever was delivered in between.
C3_OncePerCallId ==
  /\ \A i, j \in 1..Len(executed) :
       (/\ i < j
        /\ executed[i].channel # 0
        /\ executed[i].channel = executed[j].channel) =>
         executed[i].toolCall.call_id # executed[j].toolCall.call_id
  /\ \A k \in 1..Len(wire) : Cardinality(OutputsFor(wire[k].item.call_id)) <= 1

\* C3 amended: on the data channel of one session the handler of a
\* call_id is started again only after a call with another call_id has
\* been dispatched in between, and a call_id has no more
\* function_call_outputs on the wire than handlers started for it.
C3_OncePerActiveCall ==
  /\ \A i, j \in 1..Len(executed) :
       (/\ i < j
        /\ executed[i].channel # 0
        /\ executed[i].channel = executed[j].channel
        /\ executed[i].toolCall.call_id = executed[j].toolCall.call_id)
       => \E k \in (i + 1)..(j - 1) :
            executed[k].toolCall.call_id # executed[i].toolCall.call_id
  /\ \A k \in 1..Len(wire) :
       Cardinality(OutputsFor(wire[k].item.call_id)) <= Invocations(wire[k].item.call_id)

\* A call has been answered, then delivered again and rendered while it is
\* still the active call: its handler has been started once.
C3_Witness ==
  /\ ~unmounted /\ ~renderPending /\ Len(events) >= 4
  /\ events[1].source = "server" /\ events[1].item.type = "function_call"
  /\ events[2] = ResponseCreate
  /\ IsOutputFor(events[3], events[1].item.call_id)
  /\ events[4] = events[1]
  /\ activeToolCall = events[1].item
  /\ Invocations(events[1].item.call_id) = 1

\* C4: at most one handler is started and not yet settled.
C4_OneHandlerAtATime == Len(pendingHandlers) <= 1

\* C5: the render that dispatches, on an open channel, a function call for
\* a registered tool whose arguments do not parse starts no handler and
\* ends with a function_call_output for the call_id, whose output parses
\* as JSON, and a response.create on the wire.
C5_ParseFailureIsReported ==
  [][(/\ Commit
      /\ DispatchDue
      /\ dataChannel # 0 /\ readyState[dataChannel] = "open"
      /\ ~JSONparse(ArgumentsText(events[1].item)).ok)
     => (/\ executed' = executed
         /\ Len(wire') >= 2
         /\ IsOutputFor(wire'[Len(wire') - 1], events[1].item.call_id)
         /\ JSONparse(wire'[Len(wire') - 1].item.output).ok
         /\ wire'[Len(wire')] = ResponseCreate)]_vars

\* The handler of the call dispatched by the render about to commit
\* rejects in the microtasks of that render.
HandlerRejects ==
  /\ DispatchDue
  /\ JSONparse(ArgumentsText(events[1].item)).ok
  /\ ~UsesNetwork(events[1].item.name, JSONparse(ArgumentsText(events[1].item)).val,
                  webhookEndpoints)
  /\ execute(events[1].item.name, JSONparse(ArgumentsText(events[1].item)).val,
             webhookEndpoints, webhookEndpoints, NetworkFailure).rejected

\* The message of that rejection.
RejectionMessage ==
  execute(events[1].item.name, JSONparse(ArgumentsText(events[1].item)).val,
          webhookEndpoints, webhookEndpoints, NetworkFailure).error

\* The two messages that report the error message msg for call_id.
ErrorSequence(call_id, msg) ==
  << FunctionCallOutput(call_id, JSONstringify(Obj(<< <<"message", Str(msg)>> >>))),
     ResponseCreate >>

\* The render has put the report of its handler's rejection on the wire.
RejectionSent ==
  /\ Len(wire') >= Len(wire) + 2
  /\ SubSeq(wire', Len(wire') - 1, Len(wire')) =
       ErrorSequence(events[1].item.call_id, RejectionMessage)

C7_OnlyUnknownToolIsSilent ==
  [][(/\ Commit
      /\ events # <<>>
      /\ events[1].source = "server"
      /\ events[1].item.type = "function_call"
      /\ events[1].item.call_id # ""
      /\ activeToolCall.call_id # events[1].item.call_id
      /\ dataChannel # 0 /\ readyState[dataChannel] = "open")
     => IF ~IsRegistered(events[1].item.name)
        THEN /\ wire' \in {wire, Append(wire, SessionUpdate)}
             /\ activeToolCall' = activeToolCall
             /\ toolResult' = toolResult
             /\ isLoadingTool' = isLoadingTool
             /\ executed' = executed
        ELSE \/ executed' # executed
             \/ /\ Len(wire') >= 2
                /\ IsOutputFor(wire'[Len(wire') - 1], events[1].item.call_id)]_vars


(***************************************************************************)
(* Properties of the tool registry (SpecTools).                            *)
(***************************************************************************)
\* C8: whatever the tool, the arguments, the stored endpoints and the HTTP
\* response, a handler that returns a ToolResult returns a content that is
\* a string and parses as JSON.
C8_ContentIsJSON ==
  (probe.phase = "executed" /\ ~probe.outcome.rejected) =>
    /\ probe.outcome.content.k = "text"
    /\ JSONparse(probe.outcome.content).ok

\* webhook_call has returned on its payload-required path.
C8_Witness ==
  /\ probe.phase = "executed" /\ probe.tool = "webhook_call"
  /\ ~probe.outcome.rejected /\ probe.outcome.status = "error"
  /\ JSONparse(probe.outcome.content).ok
  /\ Get(JSONparse(probe.outcome.content).val, "endpoint_info").k = "obj"

\* C9: for every capability snapshot the enabled definitions are, in
\* registry order, exactly the tools whose every required flag is present
\* and true in the snapshot; webhook_call, which requires nothing, is among
\* them under every snapshot.
C9_EnabledDefinitions ==
  (probe.phase = "listed" /\ probe.win = "ok" /\ probe.env.k = "obj") =>
    /\ probe.definitions =
         SelectSeq(ToolNames,
                   LAMBDA tool : \A i \in 1..Len(requiredEnvVars(tool)) :
                                    Get(probe.env, requiredEnvVars(tool)[i]) = Bool("true"))
    /\ \E i \in 1..Len(probe.definitions) : probe.definitions[i] = "webhook_call"

\* The gate has been read under a snapshot whose SEARXNG_URL is false.
C9_Witness ==
  /\ probe.phase = "listed" /\ probe.win = "ok"
  /\ Get(probe.env, "SEARXNG_URL") = Bool("false")
  /\ probe.definitions = <<"display_color_palette", "webhook_call">>

\* C10: when the snapshot cannot be evaluated (there is no window, there is
\* no window.__ENV__, or reading it throws) every tool of the registry is
\* among the enabled definitions.
C10_FailOpen ==
  (/\ probe.phase = "listed"
   /\ (probe.win \in {"none", "throws"} \/ probe.env.k = "undef")) =>
    probe.definitions = ToolNames


(***************************************************************************)
(* Properties of webhook_call (SpecWebhook).                               *)
(***************************************************************************)
\* The keys of the endpoint store the handler has read, in stored order.
StoredKeys ==
  [i \in 1..Len(JSONparse(probe.stored).val.items) |->
     JSONparse(probe.stored).val.items[i][1]]

\* The key without the differences of letter case and of '_' for '-'.
NormalForm(key) == ToLowerCase(ReplaceUnderscores(key))

\* The endpoint key the call asks for.
RequestedKey == Get(probe.args, "endpoint_key").s

\* C11: a requested key that has the normal form of a stored key k, and
\* of no other stored key, resolves to k and to the configuration stored
\* under k.
C11_KeyResolution ==
  probe.phase = "called" =>
    \A i \in 1..Len(StoredKeys) :
      (/\ NormalForm(RequestedKey) = NormalForm(StoredKeys[i])
       /\ \A j \in 1..Len(StoredKeys) :
            j # i => NormalForm(StoredKeys[j]) # NormalForm(StoredKeys[i]))
      => /\ probe.plan.kind \in {"call", "return"}
         /\ probe.plan.call.key = StoredKeys[i]
         /\ probe.plan.call.config = Get(JSONparse(probe.stored).val, StoredKeys[i])

\* n8n_brave_search has resolved to the endpoint stored as
\* n8n-brave-search, and the request goes to the URL stored there.
C11_Witness ==
  /\ probe.phase = "called" /\ probe.stored = EndpointStore
  /\ RequestedKey = "n8n_brave_search"
  /\ probe.plan.kind = "call"
  /\ probe.plan.call.key = "n8n-brave-search"
  /\ probe.request.query = << <<"url", Str("https://n8n.example/hook")>> >>

\* C12: when the requested key has the normal form of no stored key, the
\* handler returns an error result whose error text holds the requested
\* key and then every stored key, and no request is made.
C12_NotFoundListsKeys ==
  (/\ probe.phase = "called"
   /\ \A i \in 1..Len(StoredKeys) :
        NormalForm(RequestedKey) # NormalForm(StoredKeys[i]))
  => /\ probe.request = NoRequest
     /\ ~probe.outcome.rejected /\ probe.outcome.status = "error"
     /\ JSONparse(probe.outcome.content).ok
     /\ Get(JSONparse(probe.outcome.content).val, "error").k = "str"
     /\ Get(JSONparse(probe.outcome.content).val, "error").items =
          << <<"", Str(RequestedKey)>> >>
          \o [i \in 1..Len(StoredKeys) |-> <<"", Str(StoredKeys[i])>>]

\* foo has been asked for on the store that holds bar-baz only.
C12_Witness ==
  /\ probe.phase = "called" /\ probe.stored = LegacyStore
  /\ RequestedKey = "foo"
  /\ probe.request = NoRequest
  /\ Get(JSONparse(probe.outcome.content).val, "error") =
       Fmt("Endpoint \"%\" not found. Available endpoints: %", <<"foo", "bar-baz">>)

\* The method the resolved endpoint declares: ANY for a legacy URL and for
\* a configuration without a method.
DeclaredMethod ==
  IF probe.plan.call.config.k = "obj" /\ Truthy(Get(probe.plan.call.config, "method"))
  THEN Get(probe.plan.call.config, "method").s ELSE "ANY"

\* C13: when the resolved endpoint declares GET or POST, the request of
\* the client and the request that reaches the endpoint use that method,
\* whatever the caller asked for and whatever the handler switched to.
C13_DeclaredMethodIsUsed ==
  (/\ probe.phase = "called" /\ probe.request # NoRequest
   /\ DeclaredMethod \in {"GET", "POST"})
  => /\ probe.request.method = DeclaredMethod
     /\ probe.forwarded.method = DeclaredMethod

\* The handler has switched a SearXNG endpoint that declares GET to POST,
\* and the request is a GET.
C13_Witness ==
  /\ probe.phase = "called" /\ probe.plan.kind = "call"
  /\ probe.plan.call.key = "my-searx"
  /\ DeclaredMethod = "GET" /\ probe.plan.call.method = "POST"
  /\ probe.request.method = "GET" /\ probe.forwarded.method = "GET"

\* C14: when the resolved endpoint declares POST and the call has neither
\* a payload nor a query, the handler returns an error result whose text
\* is the payload-required message with the endpoint key and its
\* description, and no request is made.
C14_PayloadRequired ==
  (/\ probe.phase = "called" /\ DeclaredMethod = "POST"
   /\ ~Truthy(Get(probe.args, "payload")) /\ ~Truthy(Get(probe.args, "query")))
  => /\ probe.request = NoRequest
     /\ ~probe.outcome.rejected /\ probe.outcome.status = "error"
     /\ JSONparse(probe.outcome.content).ok
     /\ Get(JSONparse(probe.outcome.content).val, "error") =
          Fmt("POST request to \"%\" requires a payload. %",
              <<probe.plan.call.key,
                IF Get(probe.plan.call.config, "description").k = "str"
                THEN Get(probe.plan.call.config, "description").s ELSE "">>)

\* n8n-brave-search, which declares POST, has been called without payload
\* and without query.
C14_Witness ==
  /\ probe.phase = "called" /\ probe.plan.kind = "return"
  /\ probe.plan.call.key = "n8n-brave-search"
  /\ ~Truthy(Get(probe.args, "payload")) /\ ~Truthy(Get(probe.args, "query"))
  /\ probe.request = NoRequest
  /\ Get(JSONparse(probe.outcome.content).val, "error") =
       Fmt("POST request to \"%\" requires a payload. %",
           <<"n8n-brave-search", "web search hook">>)

\* The call asks for GET and its payload holds a query.
AsksGetWithQuery ==
  /\ Get(probe.args, "method") = Str("GET")
  /\ Truthy(Get(Get(probe.args, "payload"), "query"))

\* The resolved endpoint is a SearXNG endpoint by its URL, key or
\* description.
ResolvedIsSearxng ==
  isSearxngEndpoint(IF probe.plan.call.config.k = "str" THEN probe.plan.call.config.s
                    ELSE Get(probe.plan.call.config, "url").s,
                    probe.plan.call.key,
                    IF Get(probe.plan.call.config, "description").k = "str"
                    THEN Get(probe.plan.call.config, "description").s ELSE "")

\* C15 as stated: for an endpoint whose key contains "search" and which
\* declares ANY, a call with method GET and a payload holding a query is
\* issued as a POST.
C15_SearchSwitchesToPost ==
  (/\ probe.phase = "called" /\ probe.plan.kind = "call"
   /\ IncludesSearch(probe.plan.call.key)
   /\ DeclaredMethod = "ANY" /\ AsksGetWithQuery)
  => probe.request.method = "POST"

\* C15 amended: for an endpoint that declares ANY, a call with method GET
\* and a payload holding a query is issued as a POST when the endpoint is
\* a SearXNG endpoint, and as a GET when it is not, search-like or not.
C15_SearxngSwitchesToPost ==
  (/\ probe.phase = "called" /\ probe.plan.kind = "call"
   /\ probe.request # NoRequest
   /\ DeclaredMethod = "ANY" /\ AsksGetWithQuery)
  => probe.request.method = (IF ResolvedIsSearxng THEN "POST" ELSE "GET")

\* searx-any, which declares ANY, has been called with GET and a query
\* payload, and the request is a POST with the payload as body.
C15_Witness ==
  /\ probe.phase = "called" /\ probe.plan.kind = "call"
  /\ probe.plan.call.key = "searx-any" /\ AsksGetWithQuery
  /\ probe.request.method = "POST"
  /\ probe.request.body = JSONstringify(Obj(<< <<"query", Str("x")>> >>))

\* The request that reached the endpoint carries the header name with the
\* value v; header names do not differ by letter case.
EndpointReceivedHeader(name, v) ==
  \E i \in 1..Len(probe.forwarded.headers.items) :
    /\ ToLowerCase(probe.forwarded.headers.items[i][1]) = ToLowerCase(name)
    /\ probe.forwarded.headers.items[i][2] = v

\* The resolved endpoint declares GET and authentication by API key, and
\* the call has a payload object.
GetWithApiKey ==
  /\ probe.phase = "called" /\ probe.plan.kind = "call"
  /\ DeclaredMethod = "GET"
  /\ Get(probe.plan.call.config, "authMethod") = Str("apiKey")
  /\ Truthy(Get(probe.plan.call.config, "apiKey"))
  /\ IsObject(Get(probe.args, "payload"))

\* C16: for a GET endpoint with API-key authentication called with a
\* payload, the request that reaches the endpoint is a GET to the
\* configured URL, with the payload entries as query parameters (a string
\* as it is, any other value JSON-stringified) and with the header named
\* apiKeyHeaderName set to the API key.
C16_GetCarriesKeyHeader ==
  GetWithApiKey =>
    /\ probe.forwarded.method = "GET"
    /\ probe.forwarded.target = Get(probe.plan.call.config, "url").s
    /\ probe.forwarded.query = URLSearchParams(Get(probe.args, "payload"))
    /\ probe.forwarded.body = Undef
    /\ EndpointReceivedHeader(Get(probe.plan.call.config, "apiKeyHeaderName").s,
                              Get(probe.plan.call.config, "apiKey"))

\* new URL(url).host of the absolute URLs of the store.
HostOf(url) ==
  CASE url = "https://n8n.example/hook" -> "n8n.example"
    [] url = "https://legacy.example/x" -> "legacy.example"
    [] url = "https://api.example.com/w" -> "api.example.com"
    [] url = "https://find.example/q" -> "find.example"
    [] url = "http://searx.local/search" -> "searx.local"
    [] url = "http://localhost:8080/search" -> "localhost:8080"
    [] OTHER -> ""

\* The URL is of the origin of the page: a path of the page's own server
\* or an absolute URL of the page's host.
SameOrigin(url, host) == ~StartsWithHttp(url) \/ HostOf(url) = host

\* The URL of the resolved endpoint.
ResolvedUrl ==
  IF probe.plan.call.config.k = "str" THEN probe.plan.call.config.s
  ELSE Get(probe.plan.call.config, "url").s

\* C17: a request for a URL of another origin goes to /api/proxy with
\* the URL as its url parameter, and only a URL of the page's own origin
\* is fetched directly.
C17_OtherOriginsThroughProxy ==
  (probe.phase = "called" /\ probe.request # NoRequest) =>
    IF SameOrigin(ResolvedUrl, probe.host)
    THEN probe.request.target = ResolvedUrl
    ELSE /\ probe.request.target = "/api/proxy"
         /\ probe.request.query[1] = <<"url", Str(ResolvedUrl)>>

\* The members of an endpoint configuration that hold credentials.
CredentialFields == {"apiKey", "bearerToken", "username", "password", "customHeaderValue"}

\* The configuration c with every credential replaced.
Recredential(c) ==
  IF ~IsObject(c) THEN c
  ELSE Obj([j \in 1..Len(c.items) |->
              IF c.items[j][1] \in CredentialFields
              THEN <<c.items[j][1], Str("other")>> ELSE c.items[j]])

\* The stored endpoints with the credentials of every endpoint but key
\* replaced.
WithOtherCredentials(stored, key) ==
  JSONstringify(Obj([i \in 1..Len(JSONparse(stored).val.items) |->
    IF JSONparse(stored).val.items[i][1] = key THEN JSONparse(stored).val.items[i]
    ELSE <<JSONparse(stored).val.items[i][1],
           Recredential(JSONparse(stored).val.items[i][2])>>]))

\* The request of the call does not depend on the credentials stored for
\* the other endpoints.
IndependentOfOtherCredentials ==
  PlannedRequest(WebhookPlan(probe.args,
                             WithOtherCredentials(probe.stored, probe.plan.call.key)),
                 probe.host) = probe.request

\* The headers by which callWebhook authenticates to the endpoint c.
CredentialHeaders(c) ==
  SelectSeq(WebhookHeaders(c).items, LAMBDA h : h[1] # "Content-Type")

\* Every credential of the resolved endpoint has reached the endpoint.
CredentialsDelivered ==
  \A j \in 1..Len(CredentialHeaders(probe.plan.call.config)) :
    EndpointReceivedHeader(CredentialHeaders(probe.plan.call.config)[j][1],
                           CredentialHeaders(probe.plan.call.config)[j][2])

\* C19: the request of a call to an endpoint does not depend on the
\* credentials stored for the other endpoints, and the credentials of the
\* endpoint are delivered to its URL and nowhere else.
C19_CredentialsReachOnlyTheirEndpoint ==
  (probe.phase = "called" /\ probe.request # NoRequest) =>
    /\ IndependentOfOtherCredentials
    /\ probe.forwarded.target = ResolvedUrl
    /\ CredentialsDelivered


(***************************************************************************)
(* Properties of webhook_call under the dispatcher (SpecHooks).            *)
(***************************************************************************)
\* The endpoint has answered with a status that is not 2xx, or the request
\* has failed in transport.
FailedAnswer(resp) == resp.kind = "neterr" \/ ~resp.ok

\* The ToolResult of pending handler i for the answer resp of its endpoint.
HookOutcome(i, resp) ==
  execute(pendingHandlers[i].toolCall.name, pendingHandlers[i].args,
          pendingHandlers[i].stored, webhookEndpoints,
          Received(pendingHandlers[i], resp))

\* The outcome is an error ToolResult; for an answer with a status its
\* error text carries that status.
IsErrorResult(outcome, resp) ==
  /\ ~outcome.rejected /\ outcome.status = "error"
  /\ JSONparse(outcome.content).ok
  /\ Truthy(Get(JSONparse(outcome.content).val, "error"))
  /\ resp.kind = "http" =>
       Get(JSONparse(outcome.content).val, "error") =
         Str("Webhook request failed with status: " \o resp.status)

\* The step has put the content as function_call_output for the call of
\* pending handler i on the wire, and response.create after it.
ResultSent(i, content) ==
  wire' = wire \o << FunctionCallOutput(pendingHandlers[i].toolCall.call_id, content),
                     ResponseCreate >>

UpdatesInLog == {i \in 1..Len(events) : events[i].type = "session.update"}

CreatedInLog == \E i \in 1..Len(events) : events[i].type = "session.created"

\* The render has committed in an active session with an open channel.
SessionSettled ==
  /\ isSessionActive /\ ~renderPending /\ ~unmounted
  /\ dataChannel # 0 /\ attached = dataChannel /\ readyState[dataChannel] = "open"

\* When session.created has been observed and the render has committed,
\* the session has sent a session.update, and the newest one carries the
\* tool definitions enabled by the current snapshot.
UpdateSentOnceCreated ==
  (SessionSettled /\ CreatedInLog) =>
    /\ UpdatesInLog # {}
    /\ events[CHOOSE i \in UpdatesInLog : \A j \in UpdatesInLog : i <= j].tools =
         getAllToolDefinitions("ok", windowEnv)

\* A session sends no session.update twice for the same tool definitions:
\* one session.update follows another only with a list that has changed.
FurtherUpdateOnlyOnChange ==
  \A i, j \in UpdatesInLog :
    (i < j /\ \A k \in UpdatesInLog : ~(i < k /\ k < j))
    => events[i].tools # events[j].tools

\* No session.update is sent before session.created has been observed.
UpdateOnlyAfterCreated ==
  \A i \in UpdatesInLog :
    \E j \in (i + 1)..Len(events) : events[j].type = "session.created"

RedeliveredWhilePending ==
  /\ isSessionActive
  /\ events # <<>>
  /\ events[1].source = "server"
  /\ events[1].item.type = "function_call"
  /\ events[1].item.call_id # ""
  /\ activeToolCall.call_id = events[1].item.call_id
  /\ \E i \in 1..Len(pendingHandlers) :
       pendingHandlers[i].toolCall.call_id = events[1].item.call_id

\* C21: the render whose newest event is a function call with the call_id
\* of the active call, while the handler of that call is pending, starts
\* no handler, sends nothing for the call (the session effect may send its
\* session.update) and leaves the active call, the tool result and the
\* loading flag as they are.
C21_RedeliveryIsIgnored ==
  [][(Commit /\ RedeliveredWhilePending)
     => /\ executed' = executed
        /\ pendingHandlers' = pendingHandlers
        /\ wire' \in {wire, Append(wire, SessionUpdate)}
        /\ activeToolCall' = activeToolCall
        /\ toolResult' = toolResult
        /\ isLoadingTool' = isLoadingTool]_vars

\* call_1 has been dispatched in the render that sent session.update, has
\* been delivered again while its handler is pending, and the render after
\* that has committed: one handler has been started and nothing sent.
C21_Witness ==
  /\ isSessionActive /\ ~unmounted /\ ~renderPending
  /\ Len(events) = 3
  /\ events[1].source = "server" /\ events[1].item.call_id = "call_1"
  /\ events[2].type = "session.update"
  /\ events[3] = events[1]
  /\ activeToolCall.call_id = "call_1"
  /\ Len(pendingHandlers) = 1 /\ pendingHandlers[1].toolCall.call_id = "call_1"
  /\ Len(executed) = 1
  /\ Len(wire) = 1
  /\ isLoadingTool

\* The call_ids of the function calls that stand after the first output
\* item of an event delivered.
LaterFunctionCalls ==
  UNION { { delivered[i].output[j].call_id :
              j \in {k \in 2..Len(delivered[i].output) :
                       delivered[i].output[k].type = "function_call"} } :
          i \in 1..Len(delivered) }

\* The call_ids of the function calls that are the first output item of
\* an event delivered.
FirstFunctionCalls ==
  { (IF delivered[i].output # <<>> THEN delivered[i].output[1]
     ELSE delivered[i].item).call_id : i \in 1..Len(delivered) }

\* The wire from position n on holds function_call_outputs for call_id
\* only.
OutputsOnlyFor(w, n, call_id) ==
  \A k \in (n + 1)..Len(w) :
    w[k].item.type = "function_call_output" => w[k].item.call_id = call_id

\* The render starts a handler, or sends a function_call_output, only for
\* the first output item of the newest entry of the event log.
DispatchesNewestOnly ==
  Commit =>
    /\ executed' # executed =>
         /\ events # <<>> /\ events[1].source = "server"
         /\ executed' = Append(executed, executed'[Len(executed')])
         /\ executed'[Len(executed')].toolCall = events[1].item
    /\ Len(wire') >= Len(wire)
    /\ OutputsOnlyFor(wire', Len(wire), IF events = <<>> THEN "" ELSE events[1].item.call_id)

\* A function call that is not the first output item of its event has no
\* handler and no function_call_output.
LaterItemsAreNotDispatched ==
  \A id \in LaterFunctionCalls \ FirstFunctionCalls :
    Invocations(id) = 0 /\ OutputsFor(id) = {}

\* C22: a render dispatches nothing but the first output item of the
\* newest entry of the event log, so an event that is no longer the newest
\* when the render runs is not dispatched by it, and a function call that
\* is not the first output item is never dispatched.
C22_NewestFirstItemOnly ==
  [][DispatchesNewestOnly]_vars /\ []LaterItemsAreNotDispatched

\* call_1 and, after it, the response with a message before call_2 have
\* arrived before the render ran; the render has committed and sent
\* session.update, and no handler has been started.
C22_Witness ==
  /\ isSessionActive /\ ~unmounted /\ ~renderPending
  /\ Len(events) = 3
  /\ events[1].type = "session.update"
  /\ events[2].output = <<MessageItem, FunctionCall("call_2", "web_search", ArgsQuery)>>
  /\ events[3].item.call_id = "call_1"
  /\ LaterFunctionCalls = {"call_2"}
  /\ executed = <<>> /\ pendingHandlers = <<>>
  /\ Len(wire) = 1

\* The ToolResult of pending handler i for the response resp.
SettledOutcome(i, resp) ==
  execute(pendingHandlers[i].toolCall.name, pendingHandlers[i].args,
          pendingHandlers[i].stored, webhookEndpoints, resp)

\* C23: when a handler settles with a ToolResult while its data channel is
\* open, the function_call_output that is sent carries the call_id of the
\* handler's own function call and the content of the ToolResult as the
\* string it is, whatever other handlers are pending and whichever of
\* them was started first.
C23_OutputPairsCallAndContent ==
  [][\A i \in 1..Len(pendingHandlers), resp \in Responses :
       (/\ SettleWith(i, resp)
        /\ ~SettledOutcome(i, resp).rejected
        /\ pendingHandlers[i].channel # 0
        /\ readyState[pendingHandlers[i].channel] = "open")
       => /\ SettledOutcome(i, resp).content.k = "text"
          /\ ResultSent(i, SettledOutcome(i, resp).content)]_vars

\* The handlers of call_1 and call_2 were started in this order and have
\* settled in the other order, call_2 with the search results and call_1
\* with an error.
C23_Witness ==
  /\ Len(executed) = 2
  /\ executed[1].toolCall.call_id = "call_1"
  /\ executed[2].toolCall.call_id = "call_2"
  /\ pendingHandlers = <<>>
  /\ Len(wire) >= 4
  /\ \E k \in 1..(Len(wire) - 3) :
       /\ IsOutputFor(wire[k], "call_2")
       /\ JSONparse(wire[k].item.output).val.k = "arr"
       /\ wire[k + 1] = ResponseCreate
       /\ IsOutputFor(wire[k + 2], "call_1")
       /\ Get(JSONparse(wire[k + 2].item.output).val, "error") = Str("Search failed")
       /\ wire[k + 3] = ResponseCreate

\* Both result messages of call_id are on the wire.
BothSent(call_id) ==
  \E k \in OutputsFor(call_id) : k < Len(wire) /\ wire[k + 1] = ResponseCreate

\* Once nothing is left to run, no call is marked active.
IdleAfterSettlement == (Quiescent /\ executed # <<>>) => activeToolCall = NoItem

\* The active call is cleared only when both its result messages are on
\* the wire.
ClearedOnlyAfterBoth ==
  (activeToolCall # NoItem /\ activeToolCall' = NoItem) => BothSent(activeToolCall.call_id)

\* C24 as stated: after the handler of a call has settled the active call
\* is cleared, and it is cleared only after both result messages of the
\* call have been sent.
C24_MarkerClearedAfterResult ==
  []IdleAfterSettlement /\ [][ClearedOnlyAfterBoth]_vars

\* C24 amended: the settlement of a handler leaves the active call as it
\* is and, in a mounted tree, clears the loading flag after the result
\* messages; the active call changes only in a render, to the function
\* call that the render dispatches, or to none when the session is not
\* active.
C24_MarkerOutlivesSettlement ==
  [][/\ \A i \in 1..Len(pendingHandlers), resp \in Responses :
          SettleWith(i, resp) =>
            (activeToolCall' = activeToolCall /\ (~unmounted => ~isLoadingTool'))
     /\ activeToolCall' # activeToolCall =>
          /\ Commit
          /\ activeToolCall' = NoItem => ~isSessionActive
          /\ activeToolCall' # NoItem => (DispatchDue /\ activeToolCall' = events[1].item)]_vars

\* The handler of call_1 has settled and both result messages are on the
\* wire; nothing is left to run, and call_1 is still the active call.
C24_Witness ==
  /\ Quiescent
  /\ Len(executed) = 1
  /\ BothSent("call_1")
  /\ activeToolCall.call_id = "call_1"
  /\ ~isLoadingTool

\* C26: in an active session a tool result that a settling handler
\* leaves for display is the result of the call that is the active call
\* at that moment.
C26_ResultBelongsToActiveCall ==
  [][\A i \in 1..Len(pendingHandlers), resp \in Responses :
       (SettleWith(i, resp) /\ toolResult' # NoResult /\ ~unmounted /\ isSessionActive)
       => pendingHandlers[i].toolCall = activeToolCall]_vars


(***************************************************************************)
(* Properties of the dispatcher and the capability gate (SpecGate).        *)
(***************************************************************************)
\* C25: a render starts the handler of a tool only if the capability gate
\* enables the tool under the snapshot of that moment.
C25_OnlyEnabledToolsRun ==
  [][(Commit /\ executed' # executed)
     => isToolEnabled(executed'[Len(executed')].toolCall.name, "ok", windowEnv)]_vars

(***************************************************************************)
(* Properties of the lookup, the headers and the responses of webhook_call *)
(* (SpecWebhook)                                                           *)
(***************************************************************************)
\* How a stored key matches the requested key, whose normalized form is
\* normalizedKey: 1 as given, 2 as its normalized form, 3 by the
\* case-insensitive scan, 4 not at all.
MatchRank(key, requested, normalizedKey) ==
  IF key = requested THEN 1
  ELSE IF key = normalizedKey THEN 2
  ELSE IF \/ ToLowerCase(key) = normalizedKey
          \/ ReplaceUnderscores(ToLowerCase(key)) = normalizedKey
       THEN 3
  ELSE 4

\* The key at i is the first of keys to match in the order of the lookup.
FirstMatch(keys, i, requested, normalizedKey) ==
  /\ MatchRank(keys[i], requested, normalizedKey) < 4
  /\ \A j \in 1..Len(keys) :
       \/ MatchRank(keys[j], requested, normalizedKey)
            > MatchRank(keys[i], requested, normalizedKey)
       \/ /\ MatchRank(keys[j], requested, normalizedKey)
              = MatchRank(keys[i], requested, normalizedKey)
          /\ j >= i

\* The call has resolved to the first match among the keys of the store
\* saved, and to the configuration stored under it.
ResolvedToFirstMatch(saved, keys, requested, normalizedKey) ==
  \A i \in 1..Len(keys) :
    FirstMatch(keys, i, requested, normalizedKey)
    => /\ probe.plan.kind \in {"call", "return"}
       /\ probe.plan.call.key = keys[i]
       /\ probe.plan.call.config = saved.items[i][2]

\* C27: the call resolves to the stored key that matches the requested key
\* as given; failing that to the one that is its normalized form; failing
\* that to the first stored key the case-insensitive scan matches; and to
\* the configuration stored under that key.
C27_LookupOrder ==
  probe.phase = "called" =>
    ResolvedToFirstMatch(JSONparse(probe.stored).val, StoredKeys, RequestedKey,
                         NormalForm(RequestedKey))

\* Weather_API has resolved to the key stored as given although
\* weather-api is stored before it, and web_search to web-search although
\* Web_Search is stored before it.
C27_Witness ==
  /\ probe.phase = "called" /\ probe.stored = AlikeStore
  /\ \/ (RequestedKey = "Weather_API" /\ probe.plan.call.key = "Weather_API")
     \/ (RequestedKey = "web_search" /\ probe.plan.call.key = "web-search")
  /\ Get(probe.plan.call.config, "description").s \in {"mixed weather", "lower finder"}

\* The authentication method callWebhook selects by for the configuration c
SelectedAuth(c) ==
  IF IsObject(c) /\ Truthy(Get(c, "authMethod")) THEN Get(c, "authMethod")
  ELSE Str("none")

\* The header the selected method stands for, as a set of name and value:
\* empty when the method is none or its credential is missing.
AuthHeader(c, authMethod) ==
  CASE authMethod = Str("apiKey") /\ Truthy(Get(c, "apiKey")) ->
         { <<IF Truthy(Get(c, "apiKeyHeaderName"))
             THEN Get(c, "apiKeyHeaderName").s ELSE "X-API-Key",
             Get(c, "apiKey")>> }
    [] authMethod = Str("basicAuth") /\ Truthy(Get(c, "username")) ->
         { <<"Authorization",
             Fmt("Basic btoa(%:%)",
                 <<Get(c, "username").s,
                   IF Truthy(Get(c, "password")) THEN Get(c, "password").s ELSE "">>)>> }
    [] authMethod = Str("bearerToken") /\ Truthy(Get(c, "bearerToken")) ->
         { <<"Authorization", Fmt("Bearer %", <<Get(c, "bearerToken").s>>)>> }
    [] /\ authMethod = Str("customHeader")
       /\ Truthy(Get(c, "customHeaderName")) /\ Truthy(Get(c, "customHeaderValue")) ->
         { <<Get(c, "customHeaderName").s, Get(c, "customHeaderValue")>> }
    [] OTHER -> {}

\* The headers are Content-Type: application/json and the members of auth,
\* each once.
HeadersAre(headers, auth) ==
  /\ {headers.items[i] : i \in 1..Len(headers.items)}
       = {<<"Content-Type", Str("application/json")>>} \cup auth
  /\ Len(headers.items) = 1 + Cardinality(auth)

\* C28: the request of a call carries Content-Type: application/json and,
\* beside it, only the header of the authentication method selected for
\* the endpoint, which is left out when its credential is missing; the
\* call is made all the same.
C28_HeadersByAuthMethod ==
  (probe.phase = "called" /\ probe.plan.kind = "call" /\ WebhookHasUrl(probe.plan.call))
  => /\ probe.request # NoRequest
     /\ HeadersAre(probe.request.headers,
                   AuthHeader(probe.plan.call.config, SelectedAuth(probe.plan.call.config)))

\* A call has gone out with Content-Type alone although a bearer token is
\* stored for its endpoint, and another with Basic authentication and no
\* API key header although an API key is stored.
C28_Witness ==
  /\ probe.phase = "called" /\ probe.stored = CredentialStore
  /\ probe.request # NoRequest
  /\ \/ /\ probe.plan.call.key = "weather-api"
        /\ Len(probe.request.headers.items) = 1
     \/ /\ probe.plan.call.key = "n8n-brave-search"
        /\ Get(probe.request.headers, "Authorization") = Fmt("Basic btoa(%:%)", <<"u", "">>)
        /\ Len(probe.request.headers.items) = 2

\* The method the call settles on before any payload is looked at: the
\* method the endpoint requires, else the method asked for, else GET.
EffectiveMethod(c, args) ==
  IF IsObject(c) /\ Truthy(Get(c, "method")) /\ Get(c, "method") # Str("ANY")
    THEN Get(c, "method")
  ELSE IF Truthy(Get(args, "method")) THEN Get(args, "method")
  ELSE Str("GET")

\* The key or the description of the endpoint holds "search".
SearchLike(key, c) ==
  \/ IncludesSearch(key)
  \/ /\ IsObject(c) /\ Get(c, "description").k = "str"
     /\ IncludesSearch(Get(c, "description").s)

\* The call is a POST without a payload to a search-like endpoint, and it
\* has a non-empty query.
QueryOnlyPost ==
  /\ probe.phase = "called" /\ probe.plan.call.key # ""
  /\ WebhookHasUrl(probe.plan.call)
  /\ EffectiveMethod(probe.plan.call.config, probe.args) = Str("POST")
  /\ ~Truthy(Get(probe.args, "payload"))
  /\ SearchLike(probe.plan.call.key, probe.plan.call.config)
  /\ Truthy(Get(probe.args, "query"))

\* C29: a POST without a payload to a search-like endpoint, with a
\* non-empty query, is sent with the JSON body {query: <query>}; no
\* result is returned in place of the request.
C29_QueryBecomesPayload ==
  QueryOnlyPost
  => /\ probe.plan.kind = "call"
     /\ probe.request.method = "POST"
     /\ probe.request.body = JSONstringify(Obj(<< <<"query", Get(probe.args, "query")>> >>))

\* foo, search-like by its description alone and stored with method POST,
\* has been called with the query x and no payload.
C29_Witness ==
  /\ QueryOnlyPost /\ probe.stored = CredentialStore
  /\ probe.plan.call.key = "foo"
  /\ probe.request.method = "POST"
  /\ JSONparse(probe.request.body).ok
  /\ Get(JSONparse(probe.request.body).val, "query") = Str("x")

\* The response callWebhook gets from fetch for the request of the call:
\* the answer of the endpoint, or that of the proxy when the request went
\* there.
FetchedResponse ==
  IF probe.request.target = "/api/proxy" THEN ProxyResponse(probe.response)
  ELSE probe.response

\* The data of a success result.
ResultData(outcome) == Get(JSONparse(outcome.content).val, "data")

\* The data callWebhook is to return for the 2xx response r whose body,
\* read as JSON, is parsed: the parsed body under a JSON content type, the
\* text of the body flagged as not JSON under any other.
DataOf(r, parsed) ==
  IF r.ctype = "application/json" /\ parsed.ok THEN parsed.val
  ELSE Obj(<< <<"text", IF Truthy(r.body) THEN r.body ELSE Str("Empty response")>>,
              <<"_non_json_response", Bool("true")>> >>)

\* C30: a call whose request is answered with a 2xx status ends in a
\* success result, whose data is the parsed body when the content type is
\* JSON and the body parses, and the raw text flagged as not JSON
\* otherwise; a body that does not parse never makes it an error result.
C30_SuccessWhateverTheBody ==
  (/\ probe.phase = "called" /\ probe.request # NoRequest
   /\ FetchedResponse.kind = "http" /\ FetchedResponse.ok)
  => /\ ~probe.outcome.rejected
     /\ probe.outcome.status = "success"
     /\ ResultData(probe.outcome) = DataOf(FetchedResponse, JSONparse(FetchedResponse.body))

(***************************************************************************)
(* Properties of endpoints stored as a URL string (SpecWebhook)            *)
(***************************************************************************)
\* The record an endpoint stored as the URL string c stands for.
AsRecord(c) ==
  IF c.k # "str" THEN c
  ELSE Obj(<< <<"url", c>>, <<"method", Str("ANY")>>, <<"authMethod", Str("none")>> >>)

\* The stored endpoints with every URL string replaced by its record.
AsRecords(stored) ==
  JSONstringify(Obj([i \in 1..Len(JSONparse(stored).val.items) |->
    <<JSONparse(stored).val.items[i][1], AsRecord(JSONparse(stored).val.items[i][2])>>]))

\* The call has made the request and ended in the outcome that the plan
\* recordPlan, made on the store records, ends in.
SameAsOn(records, recordPlan) ==
  /\ recordPlan.kind = probe.plan.kind
  /\ recordPlan.call.config = AsRecord(probe.plan.call.config)
  /\ PlannedRequest(recordPlan, probe.host) = probe.request
  /\ WebhookRun(recordPlan, records, records, FetchedResponse) = probe.outcome

\* The method the caller asks for, GET when it asks for none.
CallersMethod ==
  IF Truthy(Get(probe.args, "method")) THEN Get(probe.args, "method").s ELSE "GET"

OneRecordAdded(toolCall) ==
  /\ Len(toolCallHistory') = Len(toolCallHistory) + 1
  /\ Tail(toolCallHistory') = toolCallHistory
  /\ toolCallHistory'[1].toolName = toolCall.name
  /\ toolCallHistory'[1].status \in {"success", "error"}

\* The render about to commit dispatches a call on an open channel, and
\* the handling of the call completes within the render: the arguments do
\* not parse, or the handler settles without a request.
CompletesInRender ==
  /\ DispatchDue
  /\ dataChannel # 0 /\ readyState[dataChannel] = "open"
  /\ \/ ~JSONparse(ArgumentsText(events[1].item)).ok
     \/ ~UsesNetwork(events[1].item.name, JSONparse(ArgumentsText(events[1].item)).val,
                     webhookEndpoints)

\* C32: the handling of a dispatched call, when it completes, adds one
\* record for the call to the history: in the render that dispatches it
\* when the arguments do not parse or the handler settles at once, else
\* when the handler settles; the records of before stay as they are.
C32_OneRecordPerCall ==
  [][/\ (Commit /\ CompletesInRender) => OneRecordAdded(events[1].item)
     /\ \A i \in 1..Len(pendingHandlers), resp \in Responses :
          SettleWith(i, resp) => OneRecordAdded(pendingHandlers[i].toolCall)]_vars

\* The shorter of the history grown by k records and HistoryLimit.
CutLength(k) ==
  IF Len(toolCallHistory) + k < HistoryLimit THEN Len(toolCallHistory) + k
  ELSE HistoryLimit

\* The step puts k records in front of the history and drops the oldest
\* records beyond HistoryLimit.
AddedInFront(k) ==
  /\ Len(toolCallHistory') = CutLength(k)
  /\ SubSeq(toolCallHistory', k + 1, CutLength(k))
       = SubSeq(toolCallHistory, 1, CutLength(k) - k)

\* C33: the stored history never holds more than HistoryLimit records; a
\* step that changes it puts its records in front, newest first, and
\* drops the oldest records beyond HistoryLimit.
C33_AtMostFiftyNewestFirst ==
  /\ [](Len(toolCallHistory) <= HistoryLimit)
  /\ [][toolCallHistory' # toolCallHistory
        => \E k \in 1..2 : AddedInFront(k)]_vars

\* On a history of HistoryLimit records a call has been recorded: its
\* record is the first, the oldest record of before is gone and the one
\* before it is now the last.
C33_Witness ==
  /\ Len(toolCallHistory) = HistoryLimit
  /\ toolCallHistory[1].toolName = "web_search"
  /\ toolCallHistory[2] = StoredRecord(1)
  /\ toolCallHistory[HistoryLimit] = StoredRecord(HistoryLimit - 1)

(***************************************************************************)
(* Properties of the WebhookManager component (SpecManager)                *)
(***************************************************************************)
\* The key is trimmed, in lower case, and has no whitespace and no
\* underscore.
IsNormalizedKey(key) ==
  /\ Trim(key) = key
  /\ ManagerLowerCase(key) = key
  /\ ~IncludesWhitespace(key)
  /\ ~IncludesUnderscore(key)

\* The keys of the stored endpoints.
KeysOf(stored) ==
  IF Truthy(stored) /\ JSONparse(stored).ok
  THEN {JSONparse(stored).val.items[i][1] : i \in 1..Len(JSONparse(stored).val.items)}
  ELSE {}

\* C34: every key of the endpoint store is in normalized form.
C34_KeysAreNormalized ==
  \A key \in KeysOf(webhookEndpoints) : IsNormalizedKey(key)

\* The endpoints of a stored item.
EndpointsOf(stored) ==
  IF Truthy(stored) /\ JSONparse(stored).ok THEN JSONparse(stored).val ELSE Obj(<<>>)

\* The endpoints in the store.
EndpointsInStore == EndpointsOf(webhookEndpoints)

\* The fields of an endpoint that startEdit may show masked.
MaskedFields == {"apiKey", "password", "bearerToken", "customHeaderValue"}

\* No stored endpoint has the mask for a credential.
NoMaskStored(stored) ==
  \A i \in 1..Len(stored.items) : \A field \in MaskedFields :
    Get(stored.items[i][2], field) # Mask

\* A save of the endpoint being edited: every credential the form shows
\* masked is stored as it was, and the other endpoints are as they were.
SavedAsEdited(before, after, formData, editingKey) ==
  /\ \A field \in MaskedFields :
       Get(formData, field) = Mask =>
         Get(Get(after, formatEndpointKey(Get(formData, "key").s)), field)
           = Get(Get(before, editingKey), field)
  /\ \A i \in 1..Len(before.items) :
       before.items[i][1] # editingKey =>
         Get(after, before.items[i][1]) = before.items[i][2]

\* C36: saving the endpoint being edited with its masked credentials not
\* retyped leaves each stored credential unchanged and modifies no other
\* endpoint, and the mask is never written to the store.
C36_MaskedCredentialsSurvive ==
  /\ [](NoMaskStored(EndpointsInStore))
  /\ [][(handleSubmit /\ Truthy(manager.editingKey)
                      /\ manager'.editingKey = Null) =>
          \A before \in {EndpointsInStore}, stored \in {webhookEndpoints'} :
            SavedAsEdited(before, EndpointsOf(stored), manager.formData,
                          manager.editingKey.s)]_vars

\* The onload of the read r calls importWebhooks: the text is JSON, or has
\* been decrypted with the right password.
CallsImport(r) == IF r.decrypting THEN r.password ELSE r.file.json

\* A rejected import: store and endpoints of the manager are as before.
ImportRejected ==
  /\ webhookEndpoints' = webhookEndpoints
  /\ manager'.endpoints = manager.endpoints

\* An accepted import of data: the imported keys hold the imported entries,
\* every other stored entry is kept, and the store is the manager's state.
ImportMerged(before, after, data) ==
  /\ \A i \in 1..Len(data.items) : Get(after, data.items[i][1]) = data.items[i][2]
  /\ \A i \in 1..Len(before.items) :
       Get(data, before.items[i][1]) = Undef =>
         Get(after, before.items[i][1]) = before.items[i][2]
  /\ webhookEndpoints' = JSONstringify(manager'.endpoints)

\* C37: an import of data that is no object, or with an entry lacking url
\* or method, leaves store and manager unchanged; a valid import replaces
\* the entries under the imported keys, keeps every other stored entry and
\* leaves the store equal to the manager's state.
C37_ImportIsAllOrNothing ==
  [][(FileLoaded /\ CallsImport(Head(manager.reads))) =>
       \A data \in {Head(manager.reads).file.data} :
         IF ImportAccepted(data)
         THEN \A before \in {EndpointsInStore}, stored \in {webhookEndpoints'} :
                ImportMerged(before, EndpointsOf(stored), OwnProperties(data))
         ELSE ImportRejected]_vars


(***************************************************************************)
(* Properties of the session (Spec, SpecEnv).                             *)
(***************************************************************************)
\* The dispatcher as the session effect of an inactive session leaves it.
DispatcherReset ==
  /\ activeToolCall = NoItem
  /\ toolResult = NoResult
  /\ ~isLoadingTool
  /\ toolsAdded = "false"

\* C35: while the session is inactive and the render of that state has
\* run, there is no active call, no tool result, the loading flag is false
\* and the tools are marked as not registered, also after a handler of the
\* ended session has settled; a session that becomes active starts from
\* that state.
C35_DispatcherResetWhileInactive ==
  /\ []((~isSessionActive /\ ~renderPending /\ ~unmounted) => DispatcherReset)
  /\ [][(~isSessionActive /\ isSessionActive') => DispatcherReset]_vars

\* stopSession() runs: the user disconnects, or a close event fires while
\* the App is mounted.
StopSessionRuns == StopSession \/ (ChannelCloseEvent /\ ~unmounted)

\* C38: every run of stopSession, also a second one for the same session,
\* raises no error and leaves the session inactive, the data channel and
\* the peer connection cleared and the event log empty.
C38_StopSessionIsRepeatable ==
  [][StopSessionRuns =>
       /\ ~stopSessionThrows
       /\ ~isSessionActive' /\ dataChannel' = 0 /\ ~peerConnection'
       /\ events' = <<>>]_vars

\* C39: startSession is called only while no start is under way and the
\* session is inactive, the call leaves a start under way, and a start
\* under way ends only by the session becoming active: between two calls
\* the session has become active and has stopped, also when an attempt
\* fails before a session becomes active.
C39_OneStartPerAttempt ==
  [][/\ startSessionCalls' # startSessionCalls =>
          /\ ~isActivating /\ ~isSessionActive
          /\ isActivating'
          /\ startSessionCalls' = startSessionCalls + 1
     /\ (isActivating /\ ~isActivating') => isSessionActive']_vars

C39_Witness == startSessionCalls = 2 /\ isActivating


(***************************************************************************)
(* Properties of the ClipboardManager component (SpecClipboardLive).       *)
(***************************************************************************)
\* No render is waiting and the entries on display are the stored ones.
ClipboardAtRest ==
  /\ clipboard.mounted /\ ~clipboard.queued.set
  /\ clipboard.history = JSONstringify(clipboard.clipboardEntries)

\* C40: the rounds of save effect and clipboard-updated listener come to
\* an end: from some point on no render is waiting and the entries are
\* the stored clipboard history.
C40_SaveReloadLoopEnds == <>[]ClipboardAtRest

====
